---- MODULE Spec2Model ----
(***************************************************************************)
(* Turn-based battle simulator (BNSimulator).                              *)
(*                                                                         *)
(* Two battle state machines live in the repository:                       *)
(*   - src/src/simulator/battle.py : BattleState / BattleUnit, modelled    *)
(*     by the variables player_units .. last and the specification Spec;   *)
(*   - src/src/battle_engine.py + src/src/models.py : BattleEngine driving *)
(*     models.BattleState, modelled by the variables state, config, elast  *)
(*     and the specification SpecEngine.                                   *)
(*                                                                         *)
(* Floating point multipliers are carried as integer percentages           *)
(* (1.0 = 100); Python's int() is truncation toward zero (Trunc).          *)
(* Random draws are nondeterministic choices over the values the draw can  *)
(* produce.                                                                *)
(***************************************************************************)
EXTENDS Integers, Sequences, FiniteSets, TLC

(***************************************************************************)
(* Bounds of the model                                                     *)
(***************************************************************************)
\* length of action_history up to which execute_action calls are explored
MaxHistory == 1
\* end_turn() calls explored on the simulator battle
MaxEndTurns == 4
\* end_turn() calls explored on the engine battle
MaxEngineTurns == 6
\* length of action_history up to which a skirmish of two units is explored
MaxSkirmishHistory == 2
\* number of calls made on each of two seeded battles
MaxTwinCalls == 2

\* the most turns max_turns allows a run_battle call
MaxRunTurns == 1

(***************************************************************************)
(* Arithmetic helpers                                                      *)
(***************************************************************************)
\* Python int(a / b) for b > 0: truncation toward zero
Trunc(a, b) == IF a >= 0 THEN a \div b ELSE -((-a) \div b)

Max2(a, b) == IF a >= b THEN a ELSE b

Min2(a, b) == IF a <= b THEN a ELSE b

Abs(a) == IF a >= 0 THEN a ELSE -a

\* dict.get(k, default) on a dict modelled as a function
Get(d, k, default) == IF k \in DOMAIN d THEN d[k] ELSE default

\* d[k] = v on a dict modelled as a function
Put(d, k, v) == [x \in (DOMAIN d) \cup {k} |-> IF x = k THEN v ELSE d[x]]

EmptyDict == [x \in {} |-> 0]

(***************************************************************************)
(* Enumerations (simulator/enums.py)                                       *)
(***************************************************************************)
IN_PROGRESS == "IN_PROGRESS"
PLAYER_WIN == "PLAYER_WIN"
ENEMY_WIN == "ENEMY_WIN"
SURRENDER == "SURRENDER"

BattleResult == {IN_PROGRESS, PLAYER_WIN, ENEMY_WIN, SURRENDER}

PLAYER_TEAM == "PLAYER_TEAM"
ENEMY_TEAM == "ENEMY_TEAM"

\* DamageType values
PIERCING == 1
FIRE == 5

\* StatusEffectType values
DOT == 1
STUN == 2

\* LineOfFire values
LOF_NONE == 0
LOF_DIRECT == 1
LOF_INDIRECT == 2
LOF_ANY == 3

TARGETABLE_ALL == 51

\* default grid width of Position.from_grid_id
GridWidth == 5

\* Position.from_grid_id: x = grid_id % width, y = grid_id // width
from_grid_id(grid_id) == <<grid_id % GridWidth, grid_id \div GridWidth>>

(***************************************************************************)
(* Static content store (GameDataLoader): a small roster that exercises    *)
(* armor, armor piercing, limited ammo, cooldowns, splash, DOT and stun    *)
(* effects, a weapon without abilities, a weapon whose ability id is       *)
(* missing from the store, and a unit flagged unimportant.                 *)
(***************************************************************************)
StatusEffects ==
  [e \in {1, 2} |->
     IF e = 1
     THEN [id |-> 1, effect_type |-> DOT, family |-> 5, duration |-> 2,
           dot_damage_type |-> FIRE, dot_ability_damage_mult |-> 100,
           dot_bonus_damage |-> 0, dot_ap_percent |-> 0, dot_diminishing |-> TRUE,
           stun_block_action |-> FALSE,
           stun_damage_mods |-> EmptyDict, stun_armor_damage_mods |-> EmptyDict]
     ELSE [id |-> 2, effect_type |-> STUN, family |-> 4, duration |-> 1,
           dot_damage_type |-> FIRE, dot_ability_damage_mult |-> 100,
           dot_bonus_damage |-> 0, dot_ap_percent |-> 0, dot_diminishing |-> TRUE,
           stun_block_action |-> TRUE,
           stun_damage_mods |-> [t \in {FIRE} |-> 200],
           stun_armor_damage_mods |-> [t \in {PIERCING} |-> 200]]]

\* AbilityStats; status_effects is the dict effect_id -> apply_chance in
\* insertion order, damage_area the list of (dx, dy, damage_percent)
Abilities ==
  [a \in {1, 2} |->
     IF a = 1
     THEN [ability_cooldown |-> 1, global_cooldown |-> 0,
           attack |-> 0, attack_from_weapon |-> 100, attack_from_unit |-> 100,
           damage_type |-> FIRE, armor_piercing_percent |-> 0,
           critical_hit_percent |-> 0, critical_bonuses |-> [t \in {22} |-> 50],
           min_range |-> 1, max_range |-> 5, line_of_fire |-> LOF_DIRECT,
           damage_area |-> <<>>, targets |-> <<>>,
           status_effects |-> <<<<1, 50>>>>]
     ELSE [ability_cooldown |-> 0, global_cooldown |-> 1,
           attack |-> 1, attack_from_weapon |-> 100, attack_from_unit |-> 100,
           damage_type |-> PIERCING, armor_piercing_percent |-> 50,
           critical_hit_percent |-> 0, critical_bonuses |-> EmptyDict,
           min_range |-> 1, max_range |-> 2, line_of_fire |-> LOF_ANY,
           damage_area |-> << [pos |-> <<0, 0>>, damage_percent |-> 100],
                              [pos |-> <<1, 0>>, damage_percent |-> 50] >>,
           targets |-> <<20>>,
           status_effects |-> <<<<2, 100>>>>]]

\* Weapon: WeaponStats and the list of ability ids
Weapons ==
  [w \in {1, 2, 3, 4} |->
     CASE w = 1 -> [ammo |-> -1, base_atk |-> 0, base_damage_min |-> 1,
                    base_damage_max |-> 2, abilities |-> <<1>>]
       [] w = 2 -> [ammo |-> 1, base_atk |-> 0, base_damage_min |-> 2,
                    base_damage_max |-> 2, abilities |-> <<2>>]
       [] w = 3 -> [ammo |-> -1, base_atk |-> 0, base_damage_min |-> 1,
                    base_damage_max |-> 1, abilities |-> <<>>]
       [] w = 4 -> [ammo |-> 0, base_atk |-> 0, base_damage_min |-> 1,
                    base_damage_max |-> 1, abilities |-> <<99>>]]

\* UnitTemplate with the stats of its rank
Templates ==
  [t \in {1, 2, 3, 4} |->
     CASE t = 1 -> [class_type |-> 1, tags |-> {21, 7}, unimportant |-> FALSE,
                    hp |-> 3, armor_hp |-> 0, defense |-> 0, accuracy |-> 0,
                    dodge |-> 0, critical |-> 0, power |-> 0,
                    blocking |-> 1, armor_def_style |-> 0,
                    damage_mods |-> EmptyDict, armor_damage_mods |-> EmptyDict,
                    status_effect_immunities |-> {}, weapons |-> {1}]
       [] t = 2 -> [class_type |-> 2, tags |-> {20}, unimportant |-> FALSE,
                    hp |-> 2, armor_hp |-> 2, defense |-> 1, accuracy |-> 0,
                    dodge |-> 0, critical |-> 0, power |-> 1,
                    blocking |-> 2, armor_def_style |-> 1,
                    damage_mods |-> [n \in {"fire"} |-> 150],
                    armor_damage_mods |-> [n \in {"piercing"} |-> 50],
                    status_effect_immunities |-> {1}, weapons |-> {2}]
       [] t = 3 -> [class_type |-> 1, tags |-> {22}, unimportant |-> TRUE,
                    hp |-> 1, armor_hp |-> 0, defense |-> 0, accuracy |-> 0,
                    dodge |-> 0, critical |-> 0, power |-> 0,
                    blocking |-> 0, armor_def_style |-> 0,
                    damage_mods |-> EmptyDict, armor_damage_mods |-> EmptyDict,
                    status_effect_immunities |-> {}, weapons |-> {3, 4}]
       [] t = 4 -> [class_type |-> 2, tags |-> {20}, unimportant |-> FALSE,
                    hp |-> 200, armor_hp |-> 100, defense |-> 0, accuracy |-> 0,
                    dodge |-> 0, critical |-> 0, power |-> 0,
                    blocking |-> 0, armor_def_style |-> 1,
                    damage_mods |-> EmptyDict,
                    armor_damage_mods |-> [n \in {"piercing"} |-> 60],
                    status_effect_immunities |-> {}, weapons |-> {}]]

\* config.tag_hierarchy: parent tag -> child tags
TagHierarchy == [t \in {20} |-> {21}]

\* config.class_damage_mods[attacker_class][defender_class], default 1.0
get_class_damage_mod(attacker_class, defender_class) ==
  IF attacker_class = 1 /\ defender_class = 2 THEN 150 ELSE 100

\* data_loader.get_ability: an Optional, <<ability>> or NoAbility (None) for
\* an id missing from the store
NoAbility == <<>>

get_ability(ability_id) ==
  IF ability_id \in DOMAIN Abilities THEN <<Abilities[ability_id]>> ELSE NoAbility

(***************************************************************************)
(* BattleUnit (simulator/battle.py)                                        *)
(***************************************************************************)
\* ActiveStatusEffect(effect, remaining_turns, source_damage)
ActiveStatusEffect(effect_id, remaining_turns, source_damage) ==
  [effect |-> effect_id, remaining_turns |-> remaining_turns,
   source_damage |-> source_damage]

\* BattleUnit.__init__ / __post_init__: full HP and armor, ammo only for
\* weapons with limited ammo (capacity >= 0), no cooldown entries
BattleUnit(template, grid_id, battle_side) ==
  [template |-> template,
   position |-> from_grid_id(grid_id),
   battle_side |-> battle_side,
   current_hp |-> Templates[template].hp,
   current_armor |-> Templates[template].armor_hp,
   is_alive |-> TRUE,
   weapon_cooldowns |-> EmptyDict,
   global_cooldown |-> 0,
   ammo |-> [w \in {x \in Templates[template].weapons : Weapons[x].ammo >= 0}
               |-> Weapons[w].ammo],
   status_effects |-> <<>>]

\* the dtype_name lookup of take_damage; unknown types fall back to piercing
DTypeName(damage_type) ==
  CASE damage_type = 1 -> "piercing"
    [] damage_type = 3 -> "crushing"
    [] damage_type = 4 -> "explosive"
    [] damage_type = 5 -> "fire"
    [] damage_type = 2 -> "cold"
    [] OTHER -> "piercing"

\* max(1.0, the listed modifier of every active STUN effect for the type)
StatusMod(unit, field, damage_type) ==
  LET mods == { StatusEffects[unit.status_effects[i].effect][field][damage_type] :
                  i \in { j \in 1..Len(unit.status_effects) :
                            /\ StatusEffects[unit.status_effects[j].effect].effect_type = STUN
                            /\ damage_type \in DOMAIN StatusEffects[unit.status_effects[j].effect][field] } }
               \cup {100}
  IN CHOOSE m \in mods : \A k \in mods : m >= k

\* a death check that forgets to reset the HP of a killed unit to 0
CheckDeathKeepsHp(unit) ==
  IF unit.current_hp <= 0 THEN [unit EXCEPT !.is_alive = FALSE] ELSE unit

\* the death check at the end of take_damage
CheckDeath(unit) ==
  IF unit.current_hp <= 0
  THEN [unit EXCEPT !.current_hp = 0, !.is_alive = FALSE]
  ELSE unit

\* BattleUnit.take_damage: [unit |-> the unit afterwards, ret |-> returned value]
take_damage(unit, damage, damage_type, armor_piercing) ==
  IF ~unit.is_alive THEN [unit |-> unit, ret |-> 0]
  ELSE
    LET tpl == Templates[unit.template]
        dtype_name == DTypeName(damage_type)
        damage_mod == Get(tpl.damage_mods, dtype_name, 100)
                        * StatusMod(unit, "stun_damage_mods", damage_type)
        modified_damage == Trunc(damage * damage_mod, 10000)
        armor_damage0 == Trunc(modified_damage * (100 - armor_piercing), 100)
        armor_mod == Get(tpl.armor_damage_mods, dtype_name, 100)
                       * StatusMod(unit, "stun_armor_damage_mods", damage_type)
        armor_damage == Trunc(armor_damage0 * armor_mod, 10000)
        after ==
          IF unit.current_armor > 0 /\ armor_piercing < 100
          THEN IF armor_damage >= unit.current_armor
               THEN [unit EXCEPT !.current_armor = 0,
                                 !.current_hp = @ - (armor_damage - unit.current_armor)]
               ELSE [unit EXCEPT !.current_armor = @ - armor_damage]
          ELSE [unit EXCEPT !.current_hp = @ - modified_damage]
    IN [unit |-> CheckDeath(after), ret |-> modified_damage]

\* a can_act that tests the stun effects only and forgets is_alive
can_act_of_dead(unit) ==
  ~\E i \in 1..Len(unit.status_effects) :
      /\ StatusEffects[unit.status_effects[i].effect].effect_type = STUN
      /\ StatusEffects[unit.status_effects[i].effect].stun_block_action

\* BattleUnit.can_act
can_act(unit) ==
  /\ unit.is_alive
  /\ ~\E i \in 1..Len(unit.status_effects) :
        /\ StatusEffects[unit.status_effects[i].effect].effect_type = STUN
        /\ StatusEffects[unit.status_effects[i].effect].stun_block_action

\* a get_available_weapons that forgets the ammo test
get_available_weapons_any_ammo(unit) ==
  IF unit.global_cooldown > 0 THEN {}
  ELSE { w \in Templates[unit.template].weapons :
           ~(Get(unit.weapon_cooldowns, w, 0) > 0) }

\* BattleUnit.get_available_weapons, as the set of weapon ids it returns
get_available_weapons(unit) ==
  IF unit.global_cooldown > 0 THEN {}
  ELSE { w \in Templates[unit.template].weapons :
           /\ ~(Get(unit.weapon_cooldowns, w, 0) > 0)
           /\ ~(Weapons[w].ammo >= 0 /\ Get(unit.ammo, w, 0) <= 0) }

\* a tick that takes 1 from every cooldown, the expired ones too
tick_cooldowns_unguarded(unit) ==
  [unit EXCEPT
     !.global_cooldown = @ - 1,
     !.weapon_cooldowns = [w \in DOMAIN @ |-> @[w] - 1]]

\* BattleUnit.tick_cooldowns
tick_cooldowns(unit) ==
  [unit EXCEPT
     !.global_cooldown = IF @ > 0 THEN @ - 1 ELSE @,
     !.weapon_cooldowns = [w \in DOMAIN @ |-> IF @[w] > 0 THEN @[w] - 1 ELSE @[w]]]

\* sum of int(source_damage * mult + bonus) over the DOT effects of a list
RECURSIVE DotDamage(_)
DotDamage(effects) ==
  IF effects = <<>> THEN 0
  ELSE LET status == Head(effects)
           eff == StatusEffects[status.effect]
       IN (IF eff.effect_type = DOT
           THEN Trunc(status.source_damage * eff.dot_ability_damage_mult
                        + 100 * eff.dot_bonus_damage, 100)
           ELSE 0) + DotDamage(Tail(effects))

\* a tick that decrements each remaining_turns and removes no effect
RemainingEffectsNeverExpire(effects) ==
  [i \in 1..Len(effects) |-> [effects[i] EXCEPT !.remaining_turns = @ - 1]]

\* the effects that stay after each remaining_turns was decremented
RECURSIVE RemainingEffects(_)
RemainingEffects(effects) ==
  IF effects = <<>> THEN <<>>
  ELSE LET status == Head(effects)
       IN (IF status.remaining_turns - 1 > 0
           THEN <<[status EXCEPT !.remaining_turns = @ - 1]>>
           ELSE <<>>) \o RemainingEffects(Tail(effects))

\* BattleUnit.tick_status_effects: the DOT total is taken as FIRE damage
\* after the effect list was replaced by the remaining effects
tick_status_effects(unit) ==
  LET dot_damage == DotDamage(unit.status_effects)
      ticked == [unit EXCEPT !.status_effects = RemainingEffects(@)]
  IN IF dot_damage > 0 THEN take_damage(ticked, dot_damage, FIRE, 0).unit ELSE ticked

(***************************************************************************)
(* BattleState queries (simulator/battle.py)                               *)
(***************************************************************************)
NoUnit == [side |-> "none", i |-> 0]

\* the unit a reference [side, i] names in the two rosters
UnitOf(pu, eu, ref) == IF ref.side = "player" THEN pu[ref.i] ELSE eu[ref.i]

\* BattleState.get_unit_at_position with side = None: the first living unit
\* at pos in player_units + enemy_units
get_unit_at_position(pu, eu, pos) ==
  LET hitP == { i \in 1..Len(pu) : pu[i].is_alive /\ pu[i].position = pos }
      hitE == { i \in 1..Len(eu) : eu[i].is_alive /\ eu[i].position = pos }
  IN IF hitP # {} THEN [side |-> "player", i |-> CHOOSE i \in hitP : \A j \in hitP : i <= j]
     ELSE IF hitE # {} THEN [side |-> "enemy", i |-> CHOOSE i \in hitE : \A j \in hitE : i <= j]
     ELSE NoUnit

\* current_side_units / opposing_side_units
current_side_units(pu, eu, ipt) == IF ipt THEN pu ELSE eu

opposing_side_units(pu, eu, ipt) == IF ipt THEN eu ELSE pu

\* BattleState._calculate_distance with cross_grid = True
_calculate_distance(attacker_pos, target_pos) ==
  attacker_pos[2] + target_pos[2] + 1 + (Abs(attacker_pos[1] - target_pos[1]) \div 2)

\* BattleState._has_line_of_sight
_has_line_of_sight(pu, eu, attacker_pos, target_pos) ==
  IF attacker_pos[1] = target_pos[1]
  THEN ~\E y \in (Min2(attacker_pos[2], target_pos[2]) + 1)..(Max2(attacker_pos[2], target_pos[2]) - 1) :
          get_unit_at_position(pu, eu, <<attacker_pos[1], y>>) # NoUnit
  ELSE TRUE

\* BattleState._can_target_unit: tag, range and line-of-fire checks
_can_target_unit(pu, eu, attacker, target, stats) ==
  /\ Len(stats.targets) > 0 =>
       \/ \E k \in 1..Len(stats.targets) :
            \/ stats.targets[k] \in Templates[target.template].tags
            \/ Get(TagHierarchy, stats.targets[k], {}) \cap Templates[target.template].tags # {}
       \/ \E k \in 1..Len(stats.targets) : stats.targets[k] = TARGETABLE_ALL
  /\ LET distance == _calculate_distance(attacker.position, target.position)
     IN ~(distance < stats.min_range \/ distance > stats.max_range)
  /\ stats.line_of_fire = LOF_DIRECT =>
       _has_line_of_sight(pu, eu, attacker.position, target.position)

\* the positions of the units of a list that pass a test, in list order
RECURSIVE TargetPositions(_, _, _, _, _)
TargetPositions(pu, eu, attacker, stats, target_units) ==
  IF target_units = <<>> THEN <<>>
  ELSE LET target_unit == Head(target_units)
       IN (IF target_unit.is_alive /\ _can_target_unit(pu, eu, attacker, target_unit, stats)
           THEN <<target_unit.position>>
           ELSE <<>>) \o TargetPositions(pu, eu, attacker, stats, Tail(target_units))

\* BattleState.get_valid_targets
get_valid_targets(pu, eu, ipt, attacker, weapon_id) ==
  IF weapon_id \notin Templates[attacker.template].weapons THEN <<>>
  ELSE IF Weapons[weapon_id].abilities = <<>> THEN <<>>
  ELSE IF get_ability(Weapons[weapon_id].abilities[1]) = NoAbility THEN <<>>
  ELSE TargetPositions(pu, eu, attacker,
                       get_ability(Weapons[weapon_id].abilities[1])[1],
                       opposing_side_units(pu, eu, ipt))

\* Action(unit_index, weapon_id, target_position)
Action(unit_index, weapon_id, target_position) ==
  [unit_index |-> unit_index, weapon_id |-> weapon_id,
   target_position |-> target_position]

\* a set of integers as the ascending list (dict iteration order of the weapons)
RECURSIVE SortedSeq(_)
SortedSeq(S) ==
  IF S = {} THEN <<>>
  ELSE LET m == CHOOSE x \in S : \A y \in S : x <= y
       IN <<m>> \o SortedSeq(S \ {m})

\* the actions of one unit and one weapon, one per valid target
ActionsFor(unit_idx, weapon_id, valid_targets) ==
  [k \in 1..Len(valid_targets) |-> Action(unit_idx, weapon_id, valid_targets[k])]

RECURSIVE WeaponActions(_, _, _, _, _, _)
WeaponActions(pu, eu, ipt, unit_idx, unit, weapon_ids) ==
  IF weapon_ids = <<>> THEN <<>>
  ELSE ActionsFor(unit_idx, Head(weapon_ids),
                  get_valid_targets(pu, eu, ipt, unit, Head(weapon_ids)))
         \o WeaponActions(pu, eu, ipt, unit_idx, unit, Tail(weapon_ids))

RECURSIVE UnitActions(_, _, _, _)
UnitActions(pu, eu, ipt, k) ==
  LET units == current_side_units(pu, eu, ipt)
  IN IF k > Len(units) THEN <<>>
     ELSE (IF can_act(units[k])
           THEN WeaponActions(pu, eu, ipt, k - 1, units[k],
                              SortedSeq(get_available_weapons(units[k])))
           ELSE <<>>) \o UnitActions(pu, eu, ipt, k + 1)

\* BattleState.get_legal_actions: the list of actions, unit_index 0-based
get_legal_actions(pu, eu, ipt) == UnitActions(pu, eu, ipt, 1)

(***************************************************************************)
(* Attack resolution (simulator/battle.py)                                 *)
(***************************************************************************)
\* ActionResult(success, damage_dealt, kills, status_applied, message)
ActionResult(success, message) ==
  [success |-> success, damage_dealt |-> EmptyDict, kills |-> <<>>,
   status_applied |-> <<>>, message |-> message]

\* outcomes of the test rng.random() * 100 < chance, rng.random() in [0, 1)
Rolls(chance) == { b \in BOOLEAN : (b => chance > 0) /\ (~b => chance < 100) }

\* outcomes of the miss test rng.random() * 100 > hit_chance
MissRolls(hit_chance) == { b \in BOOLEAN : (b => hit_chance < 100) /\ (~b => hit_chance >= 0) }

\* BattleState._get_aoe_targets: the primary target, then one entry per
\* damage_area offset other than (0, 0), as (unit reference, damage percent)
RECURSIVE SplashTargets(_, _, _, _)
SplashTargets(pu, eu, target_pos, areas) ==
  IF areas = <<>> THEN <<>>
  ELSE LET area == Head(areas)
           splash_pos == <<target_pos[1] + area.pos[1], target_pos[2] + area.pos[2]>>
           splash_unit == get_unit_at_position(pu, eu, splash_pos)
       IN (IF area.pos = <<0, 0>> \/ splash_unit = NoUnit THEN <<>>
           ELSE <<[ref |-> splash_unit, damage_percent |-> area.damage_percent]>>)
          \o SplashTargets(pu, eu, target_pos, Tail(areas))

_get_aoe_targets(pu, eu, target_pos, stats) ==
  LET primary == get_unit_at_position(pu, eu, target_pos)
  IN (IF primary # NoUnit THEN <<[ref |-> primary, damage_percent |-> 100]>> ELSE <<>>)
     \o SplashTargets(pu, eu, target_pos, stats.damage_area)

\* BattleState._calculate_damage for a drawn base_damage
_calculate_damage(attacker, defender, weapon, stats, damage_percent, base_damage) ==
  LET attack100 == stats.attack * stats.attack_from_weapon
                     + weapon.base_atk * stats.attack_from_unit
                     + 100 * Templates[attacker.template].power
      defense == Templates[defender.template].defense
      class_mod == get_class_damage_mod(Templates[attacker.template].class_type,
                                        Templates[defender.template].class_type)
      damage100 == Max2(100, 100 * base_damage + attack100 - 100 * defense)
      scaled == Trunc(damage100 * class_mod, 10000)
      damage == Trunc(scaled * damage_percent, 100)
  IN Max2(1, damage)

\* BattleState._calculate_hit_chance
_calculate_hit_chance(attacker, defender) ==
  Max2(5, Min2(95, 80 + Templates[attacker.template].accuracy
                      - Templates[defender.template].dodge))

\* BattleState._calculate_crit_chance
RECURSIVE SumOver(_, _)
SumOver(f, S) ==
  IF S = {} THEN 0
  ELSE LET x == CHOOSE y \in S : TRUE IN f[x] + SumOver(f, S \ {x})

_calculate_crit_chance(attacker, defender, stats) ==
  Templates[attacker.template].critical + stats.critical_hit_percent
    + SumOver(stats.critical_bonuses,
              (DOMAIN stats.critical_bonuses) \cap Templates[defender.template].tags)

\* list.index(unit): position (0-based) of the first equal element, -1 when
\* the list holds none (Python raises ValueError)
ListIndex(units, unit) ==
  LET eq == { i \in 1..Len(units) : units[i] = unit }
  IN IF eq = {} THEN -1 ELSE (CHOOSE i \in eq : \A j \in eq : i <= j) - 1

\* BattleState._get_unit_index
_get_unit_index(pu, eu, pia, unit) ==
  IF unit.battle_side = PLAYER_TEAM
  THEN (IF pia THEN ListIndex(pu, unit) ELSE ListIndex(eu, unit))
  ELSE (IF pia THEN ListIndex(eu, unit) ELSE ListIndex(pu, unit))

\* the roster pair with the unit named by ref replaced
WithUnit(st, ref, unit) ==
  IF ref.side = "player"
  THEN [st EXCEPT !.pu = [@ EXCEPT ![ref.i] = unit]]
  ELSE [st EXCEPT !.eu = [@ EXCEPT ![ref.i] = unit]]

\* the status-effect loop of _execute_attack on one target: every way the
\* application rolls can fall, as the set of resulting attack states
RECURSIVE ApplyStatusEffects(_, _, _, _, _)
ApplyStatusEffects(st, ref, target_idx, damage, entries) ==
  IF entries = <<>> THEN {st}
  ELSE LET effect_id == Head(entries)[1]
           apply_chance == Head(entries)[2]
           target_unit == UnitOf(st.pu, st.eu, ref)
           applies == /\ effect_id \in DOMAIN StatusEffects
                      /\ effect_id \notin Templates[target_unit.template].status_effect_immunities
           applied ==
             [WithUnit(st, ref,
                [target_unit EXCEPT !.status_effects =
                   Append(@, ActiveStatusEffect(effect_id,
                                                StatusEffects[effect_id].duration,
                                                damage))])
               EXCEPT !.result.status_applied = Append(@, <<target_idx, effect_id>>)]
       IN UNION { ApplyStatusEffects(IF roll /\ applies THEN applied ELSE st,
                                     ref, target_idx, damage, Tail(entries))
                    : roll \in Rolls(apply_chance) }

\* a miss that lets the damage through and only skips the bookkeeping
DodgedHitLands(st, hit) == hit

\* the miss branch of the target loop ("continue"): the attack state as it
\* was before the target, whatever the hit would have done
DodgedHit(st, hit) == st

\* one iteration of the target loop of _execute_attack
HitOutcomes(st, attacker, weapon, stats, pia, tg) ==
  LET target_unit == UnitOf(st.pu, st.eu, tg.ref)
  IN IF ~target_unit.is_alive THEN {st}
     ELSE UNION {
       LET damage0 == _calculate_damage(attacker, target_unit, weapon, stats,
                                        tg.damage_percent, base_damage)
           damage == IF is_crit THEN Trunc(damage0 * 3, 2) ELSE damage0
           td == take_damage(target_unit, damage, stats.damage_type,
                             stats.armor_piercing_percent)
           hit == WithUnit(st, tg.ref, td.unit)
           target_idx == _get_unit_index(hit.pu, hit.eu, pia, td.unit)
           tracked == [hit EXCEPT
                         !.result.damage_dealt =
                            Put(@, target_idx, Get(@, target_idx, 0) + td.ret),
                         !.result.kills =
                            IF ~td.unit.is_alive THEN Append(@, target_idx) ELSE @]
       IN IF miss THEN {DodgedHit(st, hit)}
          ELSE IF target_idx < 0 THEN {[hit EXCEPT !.raised = "ValueError"]}
          ELSE ApplyStatusEffects(tracked, tg.ref, target_idx, damage, stats.status_effects)
       : <<base_damage, miss, is_crit>> \in
           (weapon.base_damage_min..weapon.base_damage_max)
             \X MissRolls(_calculate_hit_chance(attacker, target_unit))
             \X Rolls(_calculate_crit_chance(attacker, target_unit, stats)) }

\* BattleState._execute_attack: the loop over the targets; an exception ends it
RECURSIVE AttackLoop(_, _, _, _, _, _)
AttackLoop(st, attacker, weapon, stats, pia, targets) ==
  IF targets = <<>> \/ st.raised # "no" THEN {st}
  ELSE UNION { AttackLoop(s2, attacker, weapon, stats, pia, Tail(targets))
                 : s2 \in HitOutcomes(st, attacker, weapon, stats, pia, Head(targets)) }

_execute_attack(pu, eu, pia, attacker, weapon, stats, target_pos) ==
  AttackLoop([pu |-> pu, eu |-> eu, result |-> ActionResult(TRUE, ""), raised |-> "no"],
             attacker, weapon, stats, pia,
             _get_aoe_targets(pu, eu, target_pos, stats))

(***************************************************************************)
(* The engine battle: models.BattleState driven by BattleEngine            *)
(* (src/src/models.py, src/src/battle_engine.py).  The model covers the    *)
(* end-of-turn processing (status effects, cooldowns, battle end, waves,   *)
(* turn limit) and surrender, on battles as setup_battle_from_encounter    *)
(* or a caller building the BattleState dataclass hands them over.         *)
(* A status effect's source_damage is a float that end-of-turn halving     *)
(* keeps a multiple of 1/8 here; it is carried in eighths.                 *)
(***************************************************************************)
\* models.StatusEffectType.MODIFIER (DOT = 1 as in the simulator)
MODIFIER == 2

\* models.StatusEffect of type DOT, as _apply_status_effect builds it:
\* remaining_turns is the template duration.  duration and applied_damage8
\* are history fields: the values the effect was applied with.
EngineDot(source_damage, remaining_turns, dot_ap_percent, dot_diminishing) ==
  [effect_type |-> DOT, remaining_turns |-> remaining_turns,
   source_damage8 |-> 8 * source_damage,
   duration |-> remaining_turns, applied_damage8 |-> 8 * source_damage,
   dot_ability_damage_mult |-> 100, dot_bonus_damage |-> 0,
   dot_ap_percent |-> dot_ap_percent, dot_diminishing |-> dot_diminishing,
   stun_block_action |-> FALSE]

\* models.StatusEffect of type MODIFIER that blocks actions (a stun)
EngineStun(remaining_turns) ==
  [effect_type |-> MODIFIER, remaining_turns |-> remaining_turns,
   source_damage8 |-> 0,
   duration |-> remaining_turns, applied_damage8 |-> 0,
   dot_ability_damage_mult |-> 100, dot_bonus_damage |-> 0,
   dot_ap_percent |-> 0, dot_diminishing |-> FALSE,
   stun_block_action |-> TRUE]

\* models.BattleUnit: the fields the end of a turn reads or writes
EngineUnit(side, hp, armor, status_effects, global_cooldown) ==
  [side |-> side, current_hp |-> hp, current_armor |-> armor,
   status_effects |-> status_effects,
   weapon_cooldowns |-> [a \in {1} |-> global_cooldown],
   global_cooldown |-> global_cooldown,
   has_acted |-> global_cooldown > 0]

\* models.BattleUnit.is_alive
engine_is_alive(unit) == unit.current_hp > 0

\* any(u.is_alive for u in units)
AnyAlive(units) == \E k \in 1..Len(units) : engine_is_alive(units[k])

\* the loop of process_status_effects over the effects of one unit, from
\* effect i on: acc holds the unit and the battle statistics
RECURSIVE ProcessEffects(_, _)
ProcessEffects(acc, i) ==
  IF i > Len(acc.unit.status_effects) THEN acc
  ELSE
    LET unit == acc.unit
        effect == unit.status_effects[i]
        dot_damage == Trunc(effect.source_damage8 * effect.dot_ability_damage_mult
                              + 800 * effect.dot_bonus_damage, 800)
        piercing == Trunc(dot_damage * effect.dot_ap_percent, 100)
        armor_damage == Min2(dot_damage - piercing, unit.current_armor)
        hp_damage == IF unit.current_armor > 0
                     THEN piercing + Max2(0, dot_damage - armor_damage - piercing)
                     ELSE dot_damage
        new_armor == IF unit.current_armor > 0
                     THEN unit.current_armor - armor_damage ELSE unit.current_armor
        new_hp == Max2(0, unit.current_hp - hp_damage)
        killed == new_hp <= 0
        ticked == [effect EXCEPT
                     !.source_damage8 = IF effect.effect_type = DOT /\ effect.dot_diminishing
                                        THEN @ \div 2 ELSE @,
                     !.remaining_turns = @ - 1]
        after ==
          IF effect.effect_type = DOT
          THEN [unit |-> [unit EXCEPT !.current_armor = new_armor,
                                      !.current_hp = new_hp,
                                      !.status_effects[i] = ticked],
                total_damage_taken |-> acc.total_damage_taken
                  + (IF unit.side = "PLAYER" THEN dot_damage ELSE 0),
                units_lost |-> acc.units_lost
                  + (IF unit.side = "PLAYER" /\ killed THEN 1 ELSE 0),
                total_damage_dealt |-> acc.total_damage_dealt
                  + (IF unit.side # "PLAYER" THEN dot_damage ELSE 0),
                enemies_killed |-> acc.enemies_killed
                  + (IF unit.side # "PLAYER" /\ killed THEN 1 ELSE 0)]
          ELSE [acc EXCEPT !.unit.status_effects[i] = ticked]
    IN ProcessEffects(after, i + 1)

\* the effects left after the expired ones were popped
Unexpired(effects) ==
  LET keep(effect) == ~(effect.remaining_turns <= 0)
  IN SelectSeq(effects, keep)

\* BattleEngine.process_status_effects over the units of the side that
\* moved, from unit k on; dead units are skipped
RECURSIVE ProcessUnits(_, _, _)
ProcessUnits(units, stats, k) ==
  IF k > Len(units) THEN [units |-> units, stats |-> stats]
  ELSE IF ~engine_is_alive(units[k]) THEN ProcessUnits(units, stats, k + 1)
  ELSE
    LET acc == ProcessEffects([unit |-> units[k],
                               total_damage_taken |-> stats.total_damage_taken,
                               units_lost |-> stats.units_lost,
                               total_damage_dealt |-> stats.total_damage_dealt,
                               enemies_killed |-> stats.enemies_killed], 1)
        done == [acc.unit EXCEPT !.status_effects = Unexpired(@)]
    IN ProcessUnits([units EXCEPT ![k] = done],
                    [total_damage_taken |-> acc.total_damage_taken,
                     units_lost |-> acc.units_lost,
                     total_damage_dealt |-> acc.total_damage_dealt,
                     enemies_killed |-> acc.enemies_killed],
                    k + 1)

process_status_effects(st) ==
  LET units == IF st.is_player_turn THEN st.player_units ELSE st.enemy_units
      out == ProcessUnits(units,
                          [total_damage_taken |-> st.total_damage_taken,
                           units_lost |-> st.units_lost,
                           total_damage_dealt |-> st.total_damage_dealt,
                           enemies_killed |-> st.enemies_killed], 1)
      withUnits == IF st.is_player_turn
                   THEN [st EXCEPT !.player_units = out.units]
                   ELSE [st EXCEPT !.enemy_units = out.units]
  IN [withUnits EXCEPT !.total_damage_taken = out.stats.total_damage_taken,
                       !.units_lost = out.stats.units_lost,
                       !.total_damage_dealt = out.stats.total_damage_dealt,
                       !.enemies_killed = out.stats.enemies_killed]

\* the cooldown loop of BattleEngine.end_turn on one unit
DecrementCooldowns(unit) ==
  [unit EXCEPT
     !.weapon_cooldowns = [a \in DOMAIN @ |-> Max2(0, @[a] - 1)],
     !.global_cooldown = Max2(0, @ - 1),
     !.has_acted = FALSE]

\* models.BattleState.check_battle_end: the state it leaves
check_battle_end(st) ==
  IF ~AnyAlive(st.player_units)
  THEN [st EXCEPT !.is_finished = TRUE, !.player_won = FALSE]
  ELSE IF ~AnyAlive(st.enemy_units)
  THEN IF st.current_wave < st.total_waves - 1
       THEN st
       ELSE [st EXCEPT !.is_finished = TRUE, !.player_won = TRUE]
  ELSE st

\* the "next wave" step of BattleEngine.end_turn
AdvanceWave(st) ==
  IF ~st.is_finished /\ st.is_player_turn
       /\ ~AnyAlive(st.enemy_units) /\ st.current_wave < st.total_waves - 1
  THEN [st EXCEPT !.current_wave = @ + 1]
  ELSE st

\* the turn switch and the turn limit of BattleEngine.end_turn
SwitchTurn(st, max_turns) ==
  LET switched == [st EXCEPT !.is_player_turn = ~@, !.turn_number = @ + 1]
  IN IF switched.turn_number >= max_turns
     THEN [switched EXCEPT !.is_finished = TRUE, !.player_won = FALSE]
     ELSE switched

\* BattleEngine.end_turn: the state it leaves
EngineEndTurn(st, cfg) ==
  LET processed == process_status_effects(st)
      cooled == IF st.is_player_turn
                THEN [processed EXCEPT !.player_units =
                        [k \in 1..Len(@) |-> DecrementCooldowns(@[k])]]
                ELSE [processed EXCEPT !.enemy_units =
                        [k \in 1..Len(@) |-> DecrementCooldowns(@[k])]]
  IN SwitchTurn(AdvanceWave(check_battle_end(cooled)), cfg.max_turns)

\* Every unit of an engine battle carries one weapon (id 1, unlimited ammo,
\* base damage drawn from GunDamage) with one ability (id 1, no
\* cooldowns, no pattern, no status effect) and stats without dodge,
\* accuracy, power or critical; the battle has no layout, and the k-th unit
\* of a side stands on a position of its own.
GunDamage == 1..2

\* models.BattleUnit.is_stunned
engine_is_stunned(unit) ==
  \E i \in 1..Len(unit.status_effects) : unit.status_effects[i].stun_block_action

\* BattleEngine.get_valid_actions: (unit_idx, target) for every unit of the
\* side to move that can act and every living unit of the other side
get_valid_actions(st) ==
  LET units == IF st.is_player_turn THEN st.player_units ELSE st.enemy_units
      target_units == IF st.is_player_turn THEN st.enemy_units ELSE st.player_units
  IN { action \in (1..Len(units)) \X (1..Len(target_units)) :
         /\ engine_is_alive(units[action[1]])
         /\ ~units[action[1]].has_acted
         /\ ~engine_is_stunned(units[action[1]])
         /\ ~(units[action[1]].weapon_cooldowns[1] > 0)
         /\ engine_is_alive(target_units[action[2]]) }

\* BattleEngine.execute_action by an enemy unit on a player unit, with the
\* base damage drawn: _calculate_damage (no dodge, no critical, no
\* modifier), _apply_damage and the statistics
EnemyHit(st, action, base_damage) ==
  LET target == st.player_units[action[2]]
      raw_damage == Max2(1, base_damage)
      armor_damage == IF target.current_armor > 0
                      THEN Min2(raw_damage, target.current_armor) ELSE 0
      hp_damage == raw_damage - armor_damage
      new_hp == Max2(0, target.current_hp - hp_damage)
  IN [st EXCEPT
        !.enemy_units[action[1]].has_acted = TRUE,
        !.player_units[action[2]].current_armor = Max2(0, @ - armor_damage),
        !.player_units[action[2]].current_hp = new_hp,
        !.total_damage_taken = @ + armor_damage + hp_damage,
        !.units_lost = @ + (IF new_hp <= 0 THEN 1 ELSE 0)]

\* BattleEngine.execute_action by a player unit: the attacker is marked,
\* then Side.HOSTILE is looked up, a member models.Side does not have
PlayerActs(st, action) ==
  [st EXCEPT !.player_units[action[1]].has_acted = TRUE]

\* BattleEngine.simulate_random_battle: the ways the loop can end from st,
\* each with the state it leaves and how the call ended
RECURSIVE simulate_random_battle(_, _)
simulate_random_battle(st, cfg) ==
  IF st.is_finished THEN { [state |-> st, outcome |-> "returned"] }
  ELSE IF get_valid_actions(st) = {}
    THEN simulate_random_battle(EngineEndTurn(st, cfg), cfg)
    ELSE UNION { IF st.is_player_turn
                   THEN { [state |-> PlayerActs(st, action), outcome |-> "AttributeError"] }
                   ELSE UNION { simulate_random_battle(
                                  EngineEndTurn(EnemyHit(st, action, base_damage), cfg), cfg) :
                                base_damage \in GunDamage }
                 : action \in get_valid_actions(st) }

VARIABLES
  state,   \* the models.BattleState handed to the engine
  config,  \* BattleEngine.config: allow_surrender, max_turns
  elast    \* the last call made on the engine

engine_vars == <<state, config, elast>>

\* BattleConfig(): allow_surrender = True, max_turns = 100
DefaultConfig == [allow_surrender |-> TRUE, max_turns |-> 100]

\* no engine battle was set up
NoBattle == [turn_number |-> 0]

(***************************************************************************)
(* The simulator battle: BattleState of simulator/battle.py                *)
(***************************************************************************)
VARIABLES
  player_units,        \* BattleState.player_units: list of BattleUnit
  enemy_units,         \* BattleState.enemy_units
  player_is_attacker,  \* BattleState.player_is_attacker
  turn_number,         \* BattleState.turn_number
  is_player_turn,      \* BattleState.is_player_turn
  result,              \* BattleState.result
  action_history,      \* BattleState.action_history: list of (action, result)
  last,                \* the last call made on the battle and what it returned or raised
  n_end_turn,          \* history variable: number of end_turn() calls so far
  rng,                 \* BattleState.rng: the seed it was given and the draws made since
  calls,               \* history variable: the calls made on the battle, in order
  other,               \* a second BattleState instance of the same process
  generated            \* the outputs of the seeded generator fixed so far, by draw number

battle_vars == <<player_units, enemy_units, player_is_attacker, turn_number,
                 is_player_turn, result, action_history>>

NoAction == Action(0, 0, <<0, 0>>)

\* self.rng = random.Random(): seeded from the system, any draw can follow
Unseeded == [seed |-> -1, pos |-> 0]

\* no second instance was created
NoInstance == [calls |-> <<>>]

twin_vars == <<rng, calls, other, generated>>

\* a single battle whose generator was never seeded
SingleBattle ==
  /\ rng = Unseeded
  /\ calls = <<>>
  /\ other = NoInstance
  /\ generated = <<>>

\* the record of a call: outcome is "returned" or the exception raised
Call(op, action, outcome, res) ==
  [op |-> op, action |-> action, outcome |-> outcome, result |-> res]

\* rosters as BattleSimulator.create_custom_battle / create_battle_from_encounter
\* build them: (template, grid id) placements, player units on PLAYER_TEAM;
\* an encounter may set is_player_attacker = False
Roster(placements, battle_side) ==
  [k \in 1..Len(placements) |-> BattleUnit(placements[k][1], placements[k][2], battle_side)]

Setups ==
  { [player |-> << <<1, 0>>, <<2, 1>> >>, enemy |-> << <<1, 0>>, <<2, 1>> >>,
     player_is_attacker |-> TRUE],
    [player |-> << <<1, 0>>, <<3, 5>> >>, enemy |-> << <<1, 10>>, <<3, 5>> >>,
     player_is_attacker |-> TRUE],
    [player |-> << <<1, 0>>, <<2, 1>> >>, enemy |-> << <<1, 3>>, <<2, 2>> >>,
     player_is_attacker |-> TRUE],
    [player |-> << <<1, 0>> >>, enemy |-> << <<1, 2>>, <<3, 5>> >>,
     player_is_attacker |-> FALSE] }

\* the Action values handed to execute_action: the weapons of the rosters'
\* units aimed at occupied positions, plus an out-of-range and two negative
\* unit indices, an unknown weapon id, a weapon of another unit, a weapon
\* without abilities, one whose ability is missing, and an empty position
ActionInputs ==
  { Action(0, 1, p) : p \in {<<0, 0>>, <<0, 1>>, <<0, 2>>, <<2, 0>>, <<3, 0>>} }
    \cup { Action(1, 2, p) : p \in {<<0, 0>>, <<2, 0>>} }
    \cup { Action(2, 1, <<0, 0>>), Action(-1, 2, <<2, 0>>), Action(-3, 1, <<0, 0>>),
           Action(0, 9, <<0, 0>>), Action(0, 2, <<0, 0>>), Action(1, 3, <<0, 0>>),
           Action(1, 4, <<0, 0>>), Action(0, 1, <<4, 2>>) }

\* BattleState.__init__
Init ==
  /\ \E setup \in Setups :
       /\ player_units = Roster(setup.player, PLAYER_TEAM)
       /\ enemy_units = Roster(setup.enemy, ENEMY_TEAM)
       /\ player_is_attacker = setup.player_is_attacker
  /\ turn_number = 0
  /\ is_player_turn = TRUE
  /\ result = IN_PROGRESS
  /\ action_history = <<>>
  /\ last = Call("init", NoAction, "returned", ActionResult(TRUE, ""))
  /\ n_end_turn = 0
  /\ SingleBattle
  /\ state = NoBattle
  /\ config = DefaultConfig
  /\ elast = "none"

\* an early return that records the failed call in action_history
FailsRecorded(action, message) ==
  /\ last' = Call("execute_action", action, "returned", ActionResult(FALSE, message))
  /\ action_history' = Append(action_history,
                               <<action, ActionResult(FALSE, message)>>)
  /\ UNCHANGED <<player_units, enemy_units, player_is_attacker, turn_number,
                 is_player_turn, result>>

\* an early return of execute_action: nothing but the returned value
Fails(action, message) ==
  /\ last' = Call("execute_action", action, "returned", ActionResult(FALSE, message))
  /\ UNCHANGED battle_vars

\* the cooldown and ammo bookkeeping of execute_action on the acting unit
AfterUse(unit, weapon_id, stats) ==
  [unit EXCEPT
     !.weapon_cooldowns = Put(@, weapon_id, stats.ability_cooldown),
     !.global_cooldown = IF stats.global_cooldown > 0 THEN stats.global_cooldown ELSE @,
     !.ammo = IF Weapons[weapon_id].ammo >= 0
              THEN Put(@, weapon_id, Get(@, weapon_id, 0) - 1) ELSE @]

\* BattleState.execute_action
execute_action(action) ==
  LET units == current_side_units(player_units, enemy_units, is_player_turn)
      n == Len(units)
      \* units[action.unit_index]: a negative index counts from the end
      k == IF action.unit_index >= 0 THEN action.unit_index + 1
           ELSE n + action.unit_index + 1
  IN
  /\ UNCHANGED <<n_end_turn, state, config, elast>>
  /\ IF action.unit_index >= n THEN Fails(action, "Invalid unit index")
     ELSE IF k < 1 THEN
       /\ last' = Call("execute_action", action, "IndexError", ActionResult(FALSE, ""))
       /\ UNCHANGED battle_vars
     ELSE IF ~can_act(units[k]) THEN Fails(action, "Unit cannot act")
     ELSE IF action.weapon_id \notin Templates[units[k].template].weapons
       THEN Fails(action, "Invalid weapon")
     ELSE IF Weapons[action.weapon_id].abilities = <<>>
             \/ Weapons[action.weapon_id].abilities[1] = 0
       THEN Fails(action, "No ability for weapon")
     ELSE IF get_ability(Weapons[action.weapon_id].abilities[1]) = NoAbility
       THEN Fails(action, "Ability not found")
     ELSE
       LET weapon == Weapons[action.weapon_id]
           stats == get_ability(weapon.abilities[1])[1]
           me == [side |-> IF is_player_turn THEN "player" ELSE "enemy", i |-> k]
       IN \E out \in _execute_attack(player_units, enemy_units, player_is_attacker,
                                     units[k], weapon, stats, action.target_position) :
            IF out.raised # "no"
            THEN /\ player_units' = out.pu
                 /\ enemy_units' = out.eu
                 /\ last' = Call("execute_action", action, out.raised, ActionResult(FALSE, ""))
                 /\ UNCHANGED <<player_is_attacker, turn_number, is_player_turn,
                                result, action_history>>
            ELSE LET used == WithUnit(out, me,
                               AfterUse(UnitOf(out.pu, out.eu, me), action.weapon_id, stats))
                 IN /\ player_units' = used.pu
                    /\ enemy_units' = used.eu
                    /\ action_history' = Append(action_history, <<action, out.result>>)
                    /\ last' = Call("execute_action", action, "returned", out.result)
                    /\ UNCHANGED <<player_is_attacker, turn_number, is_player_turn, result>>

\* execute_action on the inputs, while fewer than MaxHistory actions were executed
ExecuteAction ==
  \E action \in ActionInputs :
    /\ Len(action_history) < MaxHistory
    /\ execute_action(action)
    /\ UNCHANGED twin_vars

\* the unit loop of end_turn: tick_cooldowns then tick_status_effects
EndOfTurnTick(units) ==
  [k \in 1..Len(units) |-> tick_status_effects(tick_cooldowns(units[k]))]

\* a liveness test of a side that counts the units flagged unimportant too
SideAliveAnyUnit(units) ==
  \E k \in 1..Len(units) : units[k].is_alive

\* any(u.is_alive and not u.template.unimportant for u in units)
SideAlive(units) ==
  \E k \in 1..Len(units) : units[k].is_alive /\ ~Templates[units[k].template].unimportant

\* BattleState._check_battle_end: the result it leaves
_check_battle_end(pu, eu, res) ==
  IF ~SideAlive(eu) THEN PLAYER_WIN
  ELSE IF ~SideAlive(pu) THEN ENEMY_WIN
  ELSE res

\* a turn counter that counts every end_turn call
turn_number_every_call(tn, ipt) == tn + 1

\* the turn counter of end_turn, given the flipped is_player_turn: incremented
\* when the turn switches back to the player
next_turn_number(tn, ipt) == IF ipt THEN tn + 1 ELSE tn

\* BattleState.end_turn
end_turn ==
  /\ n_end_turn < MaxEndTurns
  /\ n_end_turn' = n_end_turn + 1
  /\ player_units' = IF is_player_turn THEN EndOfTurnTick(player_units) ELSE player_units
  /\ enemy_units' = IF is_player_turn THEN enemy_units ELSE EndOfTurnTick(enemy_units)
  /\ is_player_turn' = ~is_player_turn
  /\ turn_number' = next_turn_number(turn_number, is_player_turn')
  /\ result' = _check_battle_end(player_units', enemy_units', result)
  /\ last' = Call("end_turn", NoAction, "returned", ActionResult(TRUE, ""))
  /\ UNCHANGED <<player_is_attacker, action_history, state, config, elast>>

\* BattleState.surrender
surrender ==
  /\ result' = SURRENDER
  /\ last' = Call("surrender", NoAction, "returned", ActionResult(TRUE, ""))
  /\ UNCHANGED <<player_units, enemy_units, player_is_attacker, turn_number,
                 is_player_turn, action_history, n_end_turn, state, config, elast>>

vars == <<player_units, enemy_units, player_is_attacker, turn_number,
          is_player_turn, result, action_history, last, n_end_turn,
          rng, calls, other, generated, state, config, elast>>

\* end_turn() on the single battle
EndTurn == end_turn /\ UNCHANGED twin_vars

\* surrender() on the single battle
Surrender == surrender /\ UNCHANGED twin_vars

Next == ExecuteAction \/ EndTurn \/ Surrender

Spec == Init /\ [][Next]_vars

(***************************************************************************)
(* A skirmish: the same BattleState with one unit a side, explored over    *)
(* several executed actions, so that a unit is hit more than once          *)
(***************************************************************************)
\* one Trooper a side, and one Tank a side, in neighbouring columns
SkirmishSetups ==
  { [player |-> << <<1, 0>> >>, enemy |-> << <<1, 1>> >>],
    [player |-> << <<2, 0>> >>, enemy |-> << <<2, 1>> >>] }

\* the unit of the side to move uses its weapon on either occupied position
SkirmishInputs ==
  { Action(0, w, p) : w \in {1, 2}, p \in {<<0, 0>>, <<1, 0>>} }

InitSkirmish ==
  /\ \E setup \in SkirmishSetups :
       /\ player_units = Roster(setup.player, PLAYER_TEAM)
       /\ enemy_units = Roster(setup.enemy, ENEMY_TEAM)
  /\ player_is_attacker = TRUE
  /\ turn_number = 0
  /\ is_player_turn = TRUE
  /\ result = IN_PROGRESS
  /\ action_history = <<>>
  /\ last = Call("init", NoAction, "returned", ActionResult(TRUE, ""))
  /\ n_end_turn = 0
  /\ SingleBattle
  /\ state = NoBattle
  /\ config = DefaultConfig
  /\ elast = "none"

ExecuteActionSkirmish ==
  \E action \in SkirmishInputs :
    /\ Len(action_history) < MaxSkirmishHistory
    /\ execute_action(action)
    /\ UNCHANGED twin_vars

NextSkirmish == ExecuteActionSkirmish \/ EndTurn \/ Surrender

SpecSkirmish == InitSkirmish /\ [][NextSkirmish]_vars

(***************************************************************************)
(* BattleSimulator.run_battle: the loop that drives a battle with two      *)
(* policies.  A battle in the loop is the record of its fields, with the   *)
(* iterations made, the end_turn calls made and the exception raised.      *)
(***************************************************************************)
\* BattleState.execute_action on the battle b: every way it can end
ExecuteOn(b, action) ==
  LET units == current_side_units(b.pu, b.eu, b.is_player_turn)
      n == Len(units)
      k == IF action.unit_index >= 0 THEN action.unit_index + 1
           ELSE n + action.unit_index + 1
  IN IF action.unit_index >= n THEN {b}
     ELSE IF k < 1 THEN {[b EXCEPT !.raised = "IndexError"]}
     ELSE IF ~can_act(units[k]) THEN {b}
     ELSE IF action.weapon_id \notin Templates[units[k].template].weapons THEN {b}
     ELSE IF Weapons[action.weapon_id].abilities = <<>>
             \/ Weapons[action.weapon_id].abilities[1] = 0 THEN {b}
     ELSE IF get_ability(Weapons[action.weapon_id].abilities[1]) = NoAbility THEN {b}
     ELSE
       LET weapon == Weapons[action.weapon_id]
           stats == get_ability(weapon.abilities[1])[1]
           me == [side |-> IF b.is_player_turn THEN "player" ELSE "enemy", i |-> k]
       IN { IF out.raised # "no"
            THEN [b EXCEPT !.pu = out.pu, !.eu = out.eu, !.raised = out.raised]
            ELSE LET used == WithUnit(out, me,
                               AfterUse(UnitOf(out.pu, out.eu, me), action.weapon_id, stats))
                 IN [b EXCEPT !.pu = used.pu, !.eu = used.eu,
                              !.action_history = Append(@, <<action, out.result>>)]
            : out \in _execute_attack(b.pu, b.eu, b.player_is_attacker, units[k],
                                      weapon, stats, action.target_position) }

\* BattleState.end_turn on the battle b
EndTurnOn(b) ==
  LET pu == IF b.is_player_turn THEN EndOfTurnTick(b.pu) ELSE b.pu
      eu == IF b.is_player_turn THEN b.eu ELSE EndOfTurnTick(b.eu)
  IN [b EXCEPT !.pu = pu, !.eu = eu,
               !.is_player_turn = ~@,
               !.turn_number = next_turn_number(@, ~b.is_player_turn),
               !.result = _check_battle_end(pu, eu, @),
               !.end_turns = @ + 1]

\* the loop of run_battle: every way it can end from b.  A policy returns a
\* legal action, which is executed, or another one, which is not.
RECURSIVE run_battle(_, _)
run_battle(b, max_turns) ==
  IF ~(b.result = IN_PROGRESS /\ b.turn_number < max_turns) THEN {b}
  ELSE LET legal_actions == get_legal_actions(b.pu, b.eu, b.is_player_turn)
           entered == [b EXCEPT !.iterations = @ + 1]
       IN IF legal_actions = <<>> THEN run_battle(EndTurnOn(entered), max_turns)
          ELSE run_battle(EndTurnOn(entered), max_turns)
                 \cup UNION { IF executed.raised # "no" THEN {executed}
                              ELSE run_battle(EndTurnOn(executed), max_turns)
                              : executed \in UNION { ExecuteOn(entered, legal_actions[i])
                                                     : i \in 1..Len(legal_actions) } }

(***************************************************************************)
(* The simulator battle driven by run_battle                               *)
(***************************************************************************)
\* BattleSimulator.run_battle(battle, player_policy, enemy_policy, max_turns)
RunBattle ==
  \E max_turns \in 1..MaxRunTurns :
    \E done \in run_battle([pu |-> player_units, eu |-> enemy_units,
                            player_is_attacker |-> player_is_attacker,
                            turn_number |-> turn_number,
                            is_player_turn |-> is_player_turn,
                            result |-> result, action_history |-> action_history,
                            iterations |-> 0, end_turns |-> 0, raised |-> "no"],
                           max_turns) :
      /\ player_units' = done.pu
      /\ enemy_units' = done.eu
      /\ turn_number' = done.turn_number
      /\ is_player_turn' = done.is_player_turn
      /\ result' = done.result
      /\ action_history' = done.action_history
      /\ n_end_turn' = n_end_turn + done.end_turns
      /\ last' = Call("run_battle",
                      [max_turns |-> max_turns, iterations |-> done.iterations],
                      IF done.raised = "no" THEN "returned" ELSE done.raised,
                      ActionResult(TRUE, ""))
      /\ UNCHANGED <<player_is_attacker, twin_vars, state, config, elast>>

NextRun == RunBattle

SpecRun == Init /\ [][NextRun]_vars

(***************************************************************************)
(* Two seeded battles: two BattleState instances built from the same       *)
(* placements and given the same seed.  The variables of the simulator     *)
(* battle hold the instance the next call is made on, other holds the      *)
(* second one.  random.Random(seed) is a fixed function of the seed and    *)
(* of the draws made since: the outputs are left open and fixed, draw by   *)
(* draw, the first time an instance reaches them (generated).              *)
(***************************************************************************)
\* the values a draw can yield, as percent of the unit interval: one below
\* and one above every chance the rosters produce
RawDraws == {0, 99}

\* rng.random() * 100
random100(raw) == raw

\* rng.randint(a, b)
randint(a, b, raw) == a + (raw % (b - a + 1))

\* the element of a one-element set
TheOne(S) == CHOOSE x \in S : TRUE

\* the attack state after one draw was taken from its generator
Drawn(st) == [st EXCEPT !.draws = Tail(@), !.used = @ + 1]

\* the status-effect loop of _execute_attack on one target, the application
\* rolls drawn from the generator in the order of the loop
RECURSIVE DrawnStatusEffects(_, _, _, _, _)
DrawnStatusEffects(st, ref, target_idx, damage, entries) ==
  IF entries = <<>> THEN st
  ELSE LET effect_id == Head(entries)[1]
           apply_chance == Head(entries)[2]
           roll == random100(Head(st.draws)) < apply_chance
           rolled == Drawn(st)
           target_unit == UnitOf(rolled.pu, rolled.eu, ref)
           applies == /\ effect_id \in DOMAIN StatusEffects
                      /\ effect_id \notin Templates[target_unit.template].status_effect_immunities
           applied ==
             [WithUnit(rolled, ref,
                [target_unit EXCEPT !.status_effects =
                   Append(@, ActiveStatusEffect(effect_id,
                                                StatusEffects[effect_id].duration,
                                                damage))])
               EXCEPT !.result.status_applied = Append(@, <<target_idx, effect_id>>)]
       IN TheOne({ DrawnStatusEffects(s2, ref, target_idx, damage, Tail(entries))
                     : s2 \in {IF roll /\ applies THEN applied ELSE rolled} })

\* one iteration of the target loop of _execute_attack: the base damage is
\* drawn in _calculate_damage, then the hit roll, and for a hit the critical
\* roll and the application rolls
DrawnHit(st, attacker, weapon, stats, pia, tg) ==
  LET target_unit == UnitOf(st.pu, st.eu, tg.ref)
      base_damage == randint(weapon.base_damage_min, weapon.base_damage_max,
                             Head(st.draws))
      damage0 == _calculate_damage(attacker, target_unit, weapon, stats,
                                   tg.damage_percent, base_damage)
      st1 == Drawn(st)
      miss == random100(Head(st1.draws)) > _calculate_hit_chance(attacker, target_unit)
      st2 == Drawn(st1)
      is_crit == random100(Head(st2.draws))
                   < _calculate_crit_chance(attacker, target_unit, stats)
      st3 == Drawn(st2)
      damage == IF is_crit THEN Trunc(damage0 * 3, 2) ELSE damage0
      td == take_damage(target_unit, damage, stats.damage_type,
                        stats.armor_piercing_percent)
      hit == WithUnit(st3, tg.ref, td.unit)
      target_idx == _get_unit_index(hit.pu, hit.eu, pia, td.unit)
      tracked == [hit EXCEPT
                    !.result.damage_dealt =
                       Put(@, target_idx, Get(@, target_idx, 0) + td.ret),
                    !.result.kills =
                       IF ~td.unit.is_alive THEN Append(@, target_idx) ELSE @]
  IN IF ~target_unit.is_alive THEN st
     ELSE IF miss THEN st2
     ELSE IF target_idx < 0 THEN [hit EXCEPT !.raised = "ValueError"]
     ELSE DrawnStatusEffects(tracked, tg.ref, target_idx, damage, stats.status_effects)

\* the loop of _execute_attack over the targets; an exception ends it
RECURSIVE DrawnAttackLoop(_, _, _, _, _, _)
DrawnAttackLoop(st, attacker, weapon, stats, pia, targets) ==
  IF targets = <<>> \/ st.raised # "no" THEN st
  ELSE TheOne({ DrawnAttackLoop(s2, attacker, weapon, stats, pia, Tail(targets))
                  : s2 \in {DrawnHit(st, attacker, weapon, stats, pia, Head(targets))} })

\* BattleState._execute_attack with the draws the generator yields
seeded_execute_attack(pu, eu, pia, attacker, weapon, stats, target_pos, draws) ==
  DrawnAttackLoop([pu |-> pu, eu |-> eu, result |-> ActionResult(TRUE, ""),
                   raised |-> "no", draws |-> draws, used |-> 0],
                  attacker, weapon, stats, pia,
                  _get_aoe_targets(pu, eu, target_pos, stats))

\* the most draws one _execute_attack can make: per target the base damage,
\* the hit roll, the critical roll and one roll per status effect
DrawsOfAttack(pu, eu, stats, target_pos) ==
  Len(_get_aoe_targets(pu, eu, target_pos, stats)) * (3 + Len(stats.status_effects))

\* the next n outputs of the generator from draw number pos on: those fixed
\* already, and any value for the others
NextDraws(pos, n) ==
  { draws \in [1..n -> RawDraws] :
      \A i \in 1..n : pos + i \in DOMAIN generated => draws[i] = generated[pos + i] }

\* the generator outputs fixed after an instance drew the first used of draws
Fixed(pos, draws, used) ==
  [i \in (DOMAIN generated) \cup ((pos + 1)..(pos + used)) |->
     IF i \in DOMAIN generated THEN generated[i] ELSE draws[i - pos]]

\* a call of execute_action that returns early: no draw is made
SeededFails(action, message) ==
  /\ Fails(action, message)
  /\ UNCHANGED <<rng, generated>>

\* BattleState.execute_action on a seeded battle
seeded_execute_action(action) ==
  LET units == current_side_units(player_units, enemy_units, is_player_turn)
      n == Len(units)
      k == IF action.unit_index >= 0 THEN action.unit_index + 1
           ELSE n + action.unit_index + 1
  IN
  /\ UNCHANGED <<n_end_turn, state, config, elast>>
  /\ IF action.unit_index >= n THEN SeededFails(action, "Invalid unit index")
     ELSE IF k < 1 THEN
       /\ last' = Call("execute_action", action, "IndexError", ActionResult(FALSE, ""))
       /\ UNCHANGED <<battle_vars, rng, generated>>
     ELSE IF ~can_act(units[k]) THEN SeededFails(action, "Unit cannot act")
     ELSE IF action.weapon_id \notin Templates[units[k].template].weapons
       THEN SeededFails(action, "Invalid weapon")
     ELSE IF Weapons[action.weapon_id].abilities = <<>>
             \/ Weapons[action.weapon_id].abilities[1] = 0
       THEN SeededFails(action, "No ability for weapon")
     ELSE IF get_ability(Weapons[action.weapon_id].abilities[1]) = NoAbility
       THEN SeededFails(action, "Ability not found")
     ELSE
       LET weapon == Weapons[action.weapon_id]
           stats == get_ability(weapon.abilities[1])[1]
           me == [side |-> IF is_player_turn THEN "player" ELSE "enemy", i |-> k]
       IN \E draws \in NextDraws(rng.pos, DrawsOfAttack(player_units, enemy_units,
                                                        stats, action.target_position)) :
          \E drawn \in {seeded_execute_attack(player_units, enemy_units,
                                              player_is_attacker, units[k], weapon,
                                              stats, action.target_position, draws)} :
            LET out == [pu |-> drawn.pu, eu |-> drawn.eu, result |-> drawn.result,
                        raised |-> drawn.raised]
            IN /\ rng' = [rng EXCEPT !.pos = @ + drawn.used]
               /\ generated' = Fixed(rng.pos, draws, drawn.used)
               /\ IF out.raised # "no"
                  THEN /\ player_units' = out.pu
                       /\ enemy_units' = out.eu
                       /\ last' = Call("execute_action", action, out.raised,
                                       ActionResult(FALSE, ""))
                       /\ UNCHANGED <<player_is_attacker, turn_number, is_player_turn,
                                      result, action_history>>
                  ELSE LET used == WithUnit(out, me,
                                     AfterUse(UnitOf(out.pu, out.eu, me),
                                              action.weapon_id, stats))
                       IN /\ player_units' = used.pu
                          /\ enemy_units' = used.eu
                          /\ action_history' = Append(action_history, <<action, out.result>>)
                          /\ last' = Call("execute_action", action, "returned", out.result)
                          /\ UNCHANGED <<player_is_attacker, turn_number,
                                         is_player_turn, result>>

\* the seeds given to seed(); both instances get the same one
Seeds == {1, 2}

\* a BattleState instance as a value: its fields, its generator, the last
\* call made on it and the calls made on it so far
Instance(pu, eu, pia, tn, ipt, res, history, lst, n, gen, log) ==
  [player_units |-> pu, enemy_units |-> eu, player_is_attacker |-> pia,
   turn_number |-> tn, is_player_turn |-> ipt, result |-> res,
   action_history |-> history, last |-> lst, n_end_turn |-> n,
   rng |-> gen, calls |-> log]

\* the instance the next call is made on
ThisInstance ==
  Instance(player_units, enemy_units, player_is_attacker, turn_number,
           is_player_turn, result, action_history, last, n_end_turn, rng, calls)

\* the generator an instance draws from, given its own self.rng and the
\* generator the last call drew from: a generator shared by the process
ProcessGenerator(own, drawn_from) == drawn_from

\* the generator an instance draws from: its own self.rng
GeneratorOf(own, drawn_from) == own

\* two battles from BattleSimulator.create_custom_battle with the same
\* placements, then seed(s) on both
InitTwin ==
  /\ \E setup \in SkirmishSetups :
       /\ player_units = Roster(setup.player, PLAYER_TEAM)
       /\ enemy_units = Roster(setup.enemy, ENEMY_TEAM)
  /\ player_is_attacker = TRUE
  /\ turn_number = 0
  /\ is_player_turn = TRUE
  /\ result = IN_PROGRESS
  /\ action_history = <<>>
  /\ last = Call("init", NoAction, "returned", ActionResult(TRUE, ""))
  /\ n_end_turn = 0
  /\ \E s \in Seeds : rng = [seed |-> s, pos |-> 0]
  /\ calls = <<>>
  /\ other = ThisInstance
  /\ generated = <<>>
  /\ state = NoBattle
  /\ config = DefaultConfig
  /\ elast = "none"

\* the unit of the side to move uses either weapon on the enemy's position
TwinInputs ==
  { Action(0, w, <<1, 0>>) : w \in {1, 2} }

\* execute_action on the instance in hand, while fewer than MaxTwinCalls
\* calls were made on it
TwinExecuteAction ==
  \E action \in TwinInputs :
    /\ Len(calls) < MaxTwinCalls
    /\ seeded_execute_action(action)
    /\ calls' = Append(calls, <<"execute_action", action>>)
    /\ UNCHANGED other

\* end_turn on the instance in hand
TwinEndTurn ==
  /\ Len(calls) < MaxTwinCalls
  /\ end_turn
  /\ calls' = Append(calls, <<"end_turn", NoAction>>)
  /\ UNCHANGED <<rng, other, generated>>

\* the caller turns to the other instance
TurnToOther ==
  /\ player_units' = other.player_units
  /\ enemy_units' = other.enemy_units
  /\ player_is_attacker' = other.player_is_attacker
  /\ turn_number' = other.turn_number
  /\ is_player_turn' = other.is_player_turn
  /\ result' = other.result
  /\ action_history' = other.action_history
  /\ last' = other.last
  /\ n_end_turn' = other.n_end_turn
  /\ rng' = GeneratorOf(other.rng, rng)
  /\ calls' = other.calls
  /\ other' = ThisInstance
  /\ UNCHANGED <<generated, state, config, elast>>

NextTwin == TwinExecuteAction \/ TwinEndTurn \/ TurnToOther

SpecTwin == InitTwin /\ [][NextTwin]_vars

(***************************************************************************)
(* The combat systems of simulator/combat.py, called on their own:         *)
(* DamageCalculator.apply_damage, StatusEffectSystem.try_apply_effect,     *)
(* process_effects and should_bypass_armor, and                            *)
(* TargetingSystem.check_line_of_fire, next to BattleUnit.take_damage, on  *)
(* a list of target units (enemy_units).  A call is recorded in last with  *)
(* its arguments, its outcome and the value it returned.                   *)
(***************************************************************************)
\* DamageCalculator.apply_damage: [unit, ret, raised].  A dead target
\* returns 0.  For a living target the modifiers are looked up and the
\* dtype_name dict literal is built, which names DamageType.SLASHING and
\* DamageType.ELECTRIC: the enum has neither member and the lookup raises
\* AttributeError before HP or armor are touched.
apply_damage(target, damage, damage_type, armor_piercing, bypass_armor_due_to_stun) ==
  IF ~target.is_alive
  THEN [unit |-> target, ret |-> 0, raised |-> "no"]
  ELSE [unit |-> target, ret |-> 0, raised |-> "AttributeError"]

\* StatusEffectSystem.try_apply_effect: every way the roll can fall, as the
\* set of [unit, ret]
try_apply_effect(target, effect_id, apply_chance, source_damage) ==
  IF effect_id \in Templates[target.template].status_effect_immunities
  THEN {[unit |-> target, ret |-> FALSE]}
  ELSE IF effect_id \notin DOMAIN StatusEffects
  THEN {[unit |-> target, ret |-> FALSE]}
  ELSE
    LET held == { i \in 1..Len(target.status_effects) :
                    target.status_effects[i].effect = effect_id }
        first == CHOOSE i \in held : \A j \in held : i <= j
        refreshed ==
          [target EXCEPT !.status_effects[first] =
             [@ EXCEPT !.remaining_turns = StatusEffects[effect_id].duration,
                       !.source_damage = Max2(@, source_damage)]]
        appended ==
          [target EXCEPT !.status_effects =
             Append(@, ActiveStatusEffect(effect_id,
                                          StatusEffects[effect_id].duration,
                                          source_damage))]
    IN { IF ~roll THEN [unit |-> target, ret |-> FALSE]
         ELSE [unit |-> IF held # {} THEN refreshed ELSE appended, ret |-> TRUE]
           : roll \in Rolls(apply_chance) }

\* the loop of process_effects from effect i on.  The statuses are
\* decremented in place; unit.status_effects is replaced by the remaining
\* ones only when the loop ends, so an exception leaves the list with the
\* statuses decremented so far.
RECURSIVE ProcessStatuses(_, _)
ProcessStatuses(acc, i) ==
  IF i > Len(acc.unit.status_effects)
  THEN [unit |-> [acc.unit EXCEPT !.status_effects = acc.remaining_effects],
        ret |-> acc.total_dot, raised |-> "no"]
  ELSE
    LET status == acc.unit.status_effects[i]
        effect == StatusEffects[status.effect]
        dot_damage == Trunc(status.source_damage * effect.dot_ability_damage_mult, 100)
                        + effect.dot_bonus_damage
        applied == IF effect.effect_type = DOT /\ dot_damage > 0
                   THEN apply_damage(acc.unit, dot_damage, effect.dot_damage_type,
                                     effect.dot_ap_percent, FALSE)
                   ELSE [unit |-> acc.unit, ret |-> 0, raised |-> "no"]
        ticked == [status EXCEPT !.remaining_turns = @ - 1]
    IN IF applied.raised # "no"
       THEN [unit |-> applied.unit, ret |-> 0, raised |-> applied.raised]
       ELSE ProcessStatuses(
              [unit |-> [applied.unit EXCEPT !.status_effects[i] = ticked],
               total_dot |-> acc.total_dot + applied.ret,
               remaining_effects |-> IF ticked.remaining_turns > 0
                                     THEN Append(acc.remaining_effects, ticked)
                                     ELSE acc.remaining_effects],
              i + 1)

\* StatusEffectSystem.process_effects
process_effects(unit) ==
  IF ~unit.is_alive THEN [unit |-> unit, ret |-> 0, raised |-> "no"]
  ELSE ProcessStatuses([unit |-> unit, total_dot |-> 0, remaining_effects |-> <<>>], 1)

\* StatusEffectSystem.is_stunned
is_stunned(unit) ==
  \E i \in 1..Len(unit.status_effects) :
    /\ StatusEffects[unit.status_effects[i].effect].effect_type = STUN
    /\ StatusEffects[unit.status_effects[i].effect].stun_block_action

\* StatusEffectSystem.should_bypass_armor
should_bypass_armor(unit) ==
  Templates[unit.template].armor_def_style = 1 /\ is_stunned(unit)

\* TargetingSystem.check_line_of_fire: [is_blocked, raised].  INDIRECT fire
\* returns unblocked; any other value goes on to the comparison with
\* LineOfFire.CONTACT, a member the enum does not have: AttributeError.
check_line_of_fire(target_pos, line_of_fire, target_units) ==
  IF line_of_fire = LOF_INDIRECT
  THEN [is_blocked |-> FALSE, raised |-> "no"]
  ELSE [is_blocked |-> FALSE, raised |-> "AttributeError"]

\* the value a call returned, as recorded in last.result: the amount of an
\* int-valued call or the flag of a bool-valued one
Returned(amount, flag) == [amount |-> amount, flag |-> flag]

\* the target lists: a Trooper (PARTIAL blocking) in front of a Bunker, a
\* Civilian (no blocking) in front of a Tank, and a Tank (FULL blocking) in
\* front of a Trooper
CombatRosters ==
  { Roster(<< <<1, 0>>, <<4, 5>> >>, ENEMY_TEAM),
    Roster(<< <<3, 0>>, <<2, 5>> >>, ENEMY_TEAM),
    Roster(<< <<2, 0>>, <<1, 5>> >>, ENEMY_TEAM) }

InitCombat ==
  /\ enemy_units \in CombatRosters
  /\ player_units = <<>>
  /\ player_is_attacker = TRUE
  /\ turn_number = 0
  /\ is_player_turn = TRUE
  /\ result = IN_PROGRESS
  /\ action_history = <<>>
  /\ last = Call("init", [target |-> 0], "returned", Returned(0, FALSE))
  /\ n_end_turn = 0
  /\ SingleBattle
  /\ state = NoBattle
  /\ config = DefaultConfig
  /\ elast = "none"

\* what a call on the combat systems leaves alone
combat_frame == <<player_units, player_is_attacker, turn_number, is_player_turn,
                  result, action_history, n_end_turn, twin_vars, state, config, elast>>

\* enemy_units[k].take_damage(damage, damage_type, armor_piercing)
CombatTakeDamage ==
  \E k \in 1..Len(enemy_units), damage \in {150},
     damage_type \in {PIERCING}, armor_piercing \in {0} :
    LET td == take_damage(enemy_units[k], damage, damage_type, armor_piercing)
    IN /\ enemy_units' = [enemy_units EXCEPT ![k] = td.unit]
       /\ last' = Call("take_damage",
                       [target |-> k, damage |-> damage, damage_type |-> damage_type,
                        armor_piercing |-> armor_piercing],
                       "returned", Returned(td.ret, FALSE))
       /\ UNCHANGED combat_frame

\* DamageCalculator.apply_damage(enemy_units[k], damage, damage_type,
\* armor_piercing, bypass_armor_due_to_stun = bypass)
CombatApplyDamage ==
  \E k \in 1..Len(enemy_units), damage \in {150},
     damage_type \in {PIERCING}, armor_piercing \in {0, 50},
     bypass \in BOOLEAN :
    LET ad == apply_damage(enemy_units[k], damage, damage_type, armor_piercing, bypass)
    IN /\ enemy_units' = [enemy_units EXCEPT ![k] = ad.unit]
       /\ last' = Call("apply_damage",
                       [target |-> k, damage |-> damage, damage_type |-> damage_type,
                        armor_piercing |-> armor_piercing, bypass |-> bypass],
                       IF ad.raised = "no" THEN "returned" ELSE ad.raised,
                       Returned(ad.ret, FALSE))
       /\ UNCHANGED combat_frame

\* StatusEffectSystem.try_apply_effect(enemy_units[k], effect_id,
\* apply_chance, source_damage, rng); effect 9 is not in the store
CombatTryApplyEffect ==
  \E k \in 1..Len(enemy_units), effect_id \in {1, 2, 9},
     apply_chance \in {50}, source_damage \in {2} :
    \E out \in try_apply_effect(enemy_units[k], effect_id, apply_chance, source_damage) :
      /\ enemy_units' = [enemy_units EXCEPT ![k] = out.unit]
      /\ last' = Call("try_apply_effect",
                      [target |-> k, effect_id |-> effect_id,
                       source_damage |-> source_damage],
                      "returned", Returned(0, out.ret))
      /\ UNCHANGED combat_frame

\* StatusEffectSystem.process_effects(enemy_units[k], damage_calculator),
\* explored on units whose effects all have turns left
CombatProcessEffects ==
  \E k \in 1..Len(enemy_units) :
    /\ \A i \in 1..Len(enemy_units[k].status_effects) :
         enemy_units[k].status_effects[i].remaining_turns >= 1
    /\ LET pe == process_effects(enemy_units[k])
       IN /\ enemy_units' = [enemy_units EXCEPT ![k] = pe.unit]
          /\ last' = Call("process_effects", [target |-> k],
                          IF pe.raised = "no" THEN "returned" ELSE pe.raised,
                          Returned(pe.ret, FALSE))
    /\ UNCHANGED combat_frame

\* TargetingSystem.check_line_of_fire(attacker_pos, enemy_units[k].position,
\* line_of_fire, attacker_battle_side, enemy_units, battle) for the members
\* NONE, DIRECT, INDIRECT and ANY of LineOfFire
CombatCheckLineOfFire ==
  \E k \in 1..Len(enemy_units), line_of_fire \in {LOF_NONE, LOF_DIRECT, LOF_INDIRECT, LOF_ANY} :
    LET lof == check_line_of_fire(enemy_units[k].position, line_of_fire, enemy_units)
    IN /\ last' = Call("check_line_of_fire",
                       [target |-> k, line_of_fire |-> line_of_fire],
                       IF lof.raised = "no" THEN "returned" ELSE lof.raised,
                       Returned(0, lof.is_blocked))
       /\ UNCHANGED <<enemy_units, combat_frame>>

NextCombat ==
  \/ CombatTakeDamage
  \/ CombatApplyDamage
  \/ CombatTryApplyEffect
  \/ CombatProcessEffects
  \/ CombatCheckLineOfFire

SpecCombat == InitCombat /\ [][NextCombat]_vars

(***************************************************************************)
(* The calculators of simulator/combat.py as functions of their arguments: *)
(* the calls are made one by one, on arguments drawn from small sets, and  *)
(* recorded in last.                                                       *)
(***************************************************************************)
\* Python integers are unbounded, floats are IEEE doubles: float(x) raises
\* OverflowError once |x| rounds to 2^FloatMaxExp.  A large integer is
\* carried as hi * 2^BigUnitExp + lo, with lo small against 2^BigUnitExp.
FloatMaxExp == 1024
BigUnitExp == 1000

BigInt(hi, lo) == [hi |-> hi, lo |-> lo]

BigPlus(a, b) == BigInt(a.hi + b.hi, a.lo + b.lo)

BigMinus(a, b) == BigInt(a.hi - b.hi, a.lo - b.lo)

\* a <= n for a small integer n
BigAtMost(a, n) == a.hi < 0 \/ (a.hi = 0 /\ a.lo <= n)

\* float(x) raises OverflowError
FloatOverflows(x) ==
  \/ x.hi >= 2^(FloatMaxExp - BigUnitExp)
  \/ x.hi <= -(2^(FloatMaxExp - BigUnitExp))

\* DamageCalculator.calculate_dodge_chance: [raised, chance], the chance a
\* large integer still (the conversion to float went through)
calculate_dodge_chance(defender_defense, attacker_offense) ==
  LET dodge_chance == BigPlus(BigMinus(defender_defense, attacker_offense), BigInt(0, 5))
  IN IF FloatOverflows(dodge_chance)
     THEN [raised |-> "OverflowError", chance |-> BigInt(0, 0)]
     ELSE [raised |-> "no",
           chance |-> IF BigAtMost(dodge_chance, 0) THEN BigInt(0, 0) ELSE dodge_chance]

\* the dodge chance that calculate_damage compares with the roll:
\* min(95.0, calculate_dodge_chance(defense, attack + accuracy))
DodgeChanceOfDamage(attack, accuracy, defense) ==
  LET offense == BigPlus(attack, accuracy)
      dodge == calculate_dodge_chance(defense, offense)
  IN IF dodge.raised # "no" THEN [raised |-> dodge.raised, chance |-> 0]
     ELSE [raised |-> "no",
           chance |-> IF BigAtMost(dodge.chance, 95) THEN dodge.chance.lo ELSE 95]

\* TargetType (enums.py)
SINGLE == 2
ROW == 3

\* the weight an entry of a pattern has when it carries none
DefaultWeight == 100

\* DamageArea(pos, damage_percent), with the weight read by getattr
DamageArea(pos, damage_percent, weight) ==
  [pos |-> pos, damage_percent |-> damage_percent, weight |-> weight]

\* TargetArea(target_type, data, random)
TargetArea(target_type, data, random) ==
  [target_type |-> target_type, data |-> data, random |-> random]

\* one impact point of the result list: (position, damage_percent)
Impact(pos, damage_percent) == [pos |-> pos, damage_percent |-> damage_percent]

\* every entry of the pattern, moved to the aim point
RECURSIVE PatternImpacts(_, _)
PatternImpacts(data, primary_target) ==
  IF data = <<>> THEN <<>>
  ELSE <<Impact(<<primary_target[1] + Head(data).pos[1],
                  primary_target[2] + Head(data).pos[2]>>,
                Head(data).damage_percent)>>
         \o PatternImpacts(Tail(data), primary_target)

\* sum(weights) over the first n entries
RECURSIVE CumulativeWeight(_, _)
CumulativeWeight(data, n) ==
  IF n = 0 THEN 0 ELSE CumulativeWeight(data, n - 1) + data[n].weight

\* the entries at which roll <= cumulative, roll = rng.random() * total_weight
\* (raw is rng.random() * 100)
WeightedHits(data, raw) ==
  { k \in 1..Len(data) :
      raw * CumulativeWeight(data, Len(data)) <= 100 * CumulativeWeight(data, k) }

\* TargetingSystem.resolve_target_area(ability, primary_target, battle, rng)
\* on an ability that has a target_area
resolve_target_area(target_area, primary_target, raw) ==
  IF target_area.target_type = SINGLE
    THEN IF /\ target_area.random
            /\ target_area.data # <<>>
            /\ CumulativeWeight(target_area.data, Len(target_area.data)) > 0
            /\ WeightedHits(target_area.data, raw) # {}
           THEN LET k == CHOOSE h \in WeightedHits(target_area.data, raw) :
                           \A g \in WeightedHits(target_area.data, raw) : h <= g
                IN PatternImpacts(<<target_area.data[k]>>, primary_target)
           ELSE <<Impact(primary_target, 100)>>
    ELSE PatternImpacts(target_area.data, primary_target)

\* the entries a pattern is built from, and the patterns handed in
PatternEntries ==
  { DamageArea(<<0, 0>>, 100, w) : w \in {0, DefaultWeight} }
    \cup { DamageArea(<<1, 0>>, 50, w) : w \in {0, DefaultWeight} }

MaxPattern == 2

Patterns == UNION { [1..n -> PatternEntries] : n \in 0..MaxPattern }

\* the stat values handed in: small ones of either sign, and magnitudes
\* beyond the range of a float
StatValues ==
  { BigInt(0, v) : v \in {-20, 0, 10, 50, 200} }
    \cup { BigInt(2^(FloatMaxExp - BigUnitExp), 0), BigInt(-(2^(FloatMaxExp - BigUnitExp)), 0) }

InitCalc ==
  /\ enemy_units = <<>>
  /\ player_units = <<>>
  /\ player_is_attacker = TRUE
  /\ turn_number = 0
  /\ is_player_turn = TRUE
  /\ result = IN_PROGRESS
  /\ action_history = <<>>
  /\ last = Call("init", [attack |-> BigInt(0, 0)], "returned", Returned(0, FALSE))
  /\ n_end_turn = 0
  /\ SingleBattle
  /\ state = NoBattle
  /\ config = DefaultConfig
  /\ elast = "none"

\* what a call on a calculator leaves alone
calc_frame == <<battle_vars, n_end_turn, twin_vars, state, config, elast>>

\* the dodge test of DamageCalculator.calculate_damage on an attacker with
\* the given ability attack and accuracy and a defender with the given defense
CalcDodgeChance ==
  \E attack \in StatValues, accuracy \in StatValues, defense \in StatValues :
    LET dodge == DodgeChanceOfDamage(attack, accuracy, defense)
    IN /\ last' = Call("dodge_chance",
                       [attack |-> attack, accuracy |-> accuracy, defense |-> defense],
                       IF dodge.raised = "no" THEN "returned" ELSE dodge.raised,
                       Returned(dodge.chance, FALSE))
       /\ UNCHANGED calc_frame

\* resolve_target_area on a pattern, an aim point and the value drawn
CalcResolveTargetArea ==
  \E target_type \in {SINGLE, ROW}, data \in Patterns, random \in BOOLEAN,
     raw \in {0, 50, 99} :
    LET target_area == TargetArea(target_type, data, random)
        primary_target == <<1, 1>>
        impacts == resolve_target_area(target_area, primary_target, raw)
    IN /\ last' = Call("resolve_target_area",
                       [target_area |-> target_area, primary_target |-> primary_target,
                        raw |-> raw, impacts |-> impacts],
                       "returned", Returned(Len(impacts), FALSE))
       /\ UNCHANGED calc_frame

NextCalc ==
  \/ CalcDodgeChance
  \/ CalcResolveTargetArea

SpecCalc == InitCalc /\ [][NextCalc]_vars

(***************************************************************************)
(* The engine battle as a state machine                                    *)
(***************************************************************************)
sim_vars == <<player_units, enemy_units, player_is_attacker, turn_number,
              is_player_turn, result, action_history, last, n_end_turn, twin_vars>>

\* BattleState(...) as the dataclass builds it around the given units and waves
EngineBattleState(players, enemies, total_waves, current_wave) ==
  [player_units |-> players, enemy_units |-> enemies,
   turn_number |-> 0, is_player_turn |-> TRUE,
   current_wave |-> current_wave, total_waves |-> total_waves,
   is_finished |-> FALSE, player_won |-> FALSE, surrendered |-> FALSE,
   total_damage_dealt |-> 0, total_damage_taken |-> 0,
   units_lost |-> 0, enemies_killed |-> 0]

\* the battles handed to the engine: an encounter whose current wave spawned
\* no unit, enemies that burn to death while waves remain, enemies already
\* dead in the last wave, single-wave battles either side can lose, and
\* one with diminishing DOTs of duration 4 and 3 on units that outlive them
EngineSetups ==
  { EngineBattleState(<<EngineUnit("PLAYER", 3, 0, <<>>, 0)>>, <<>>, 2, 0),
    EngineBattleState(<<EngineUnit("PLAYER", 3, 0, <<>>, 1)>>,
                      <<EngineUnit("ENEMY", 2, 0, <<EngineDot(2, 2, 0, TRUE)>>, 0)>>,
                      3, 0),
    EngineBattleState(<<EngineUnit("PLAYER", 3, 1, <<EngineDot(2, 3, 50, FALSE)>>, 0),
                        EngineUnit("PLAYER", 0, 0, <<>>, 0)>>,
                      <<EngineUnit("ENEMY", 4, 2, <<EngineDot(4, 3, 0, TRUE),
                                                    EngineStun(1)>>, 2)>>,
                      2, 0),
    EngineBattleState(<<EngineUnit("PLAYER", 2, 0, <<EngineDot(1, 2, 0, FALSE)>>, 0)>>,
                      <<EngineUnit("ENEMY", 3, 0, <<>>, 0)>>, 1, 0),
    EngineBattleState(<<EngineUnit("PLAYER", 3, 0, <<>>, 0)>>,
                      <<EngineUnit("ENEMY", 0, 0, <<>>, 0)>>, 2, 1),
    EngineBattleState(<<EngineUnit("PLAYER", 3, 0, <<>>, 0)>>,
                      <<EngineUnit("ENEMY", 1, 1, <<EngineDot(3, 1, 50, TRUE)>>, 0),
                        EngineUnit("ENEMY", 2, 0, <<EngineDot(1, 3, 0, FALSE)>>, 0)>>,
                      2, 0),
    EngineBattleState(<<EngineUnit("PLAYER", 9, 0, <<EngineDot(4, 4, 0, TRUE)>>, 0)>>,
                      <<EngineUnit("ENEMY", 9, 0, <<EngineDot(3, 3, 0, TRUE)>>, 0)>>,
                      1, 0) }

\* the engine configurations: the default one, and one without surrender
\* and with a short turn limit
EngineConfigs ==
  { DefaultConfig, [allow_surrender |-> FALSE, max_turns |-> 4] }

InitEngine ==
  /\ state \in EngineSetups
  /\ config \in EngineConfigs
  /\ elast = "init"
  /\ player_units = <<>>
  /\ enemy_units = <<>>
  /\ player_is_attacker = TRUE
  /\ turn_number = 0
  /\ is_player_turn = TRUE
  /\ result = IN_PROGRESS
  /\ action_history = <<>>
  /\ last = Call("none", NoAction, "returned", ActionResult(TRUE, ""))
  /\ n_end_turn = 0
  /\ SingleBattle

\* BattleEngine.end_turn(state)
engine_end_turn ==
  /\ state.turn_number < MaxEngineTurns
  /\ state' = EngineEndTurn(state, config)
  /\ elast' = "end_turn"
  /\ UNCHANGED <<config, sim_vars>>

\* a surrender that ends the battle whatever the configuration says
engine_surrender_always ==
  /\ state' = [state EXCEPT !.is_finished = TRUE, !.player_won = FALSE,
                            !.surrendered = TRUE]
  /\ elast' = "surrender"
  /\ UNCHANGED <<config, sim_vars>>

\* BattleEngine.surrender(state)
engine_surrender ==
  /\ state' = IF config.allow_surrender
              THEN [state EXCEPT !.is_finished = TRUE, !.player_won = FALSE,
                                 !.surrendered = TRUE]
              ELSE state
  /\ elast' = "surrender"
  /\ UNCHANGED <<config, sim_vars>>

\* BattleEngine.simulate_random_battle(state)
engine_simulate_random_battle ==
  \E out \in simulate_random_battle(state, config) :
    /\ state' = out.state
    /\ elast' = IF out.outcome = "returned" THEN "simulate_random_battle"
                ELSE "simulate_random_battle raised"
    /\ UNCHANGED <<config, sim_vars>>

NextEngine == engine_end_turn \/ engine_surrender \/ engine_simulate_random_battle

SpecEngine == InitEngine /\ [][NextEngine]_vars

(***************************************************************************)
(* Both battles side by side: a simulator battle and an engine battle of   *)
(* the same process, each ended by turns and by surrender                  *)
(***************************************************************************)
InitBoth ==
  /\ \E setup \in Setups :
       /\ player_units = Roster(setup.player, PLAYER_TEAM)
       /\ enemy_units = Roster(setup.enemy, ENEMY_TEAM)
       /\ player_is_attacker = setup.player_is_attacker
  /\ turn_number = 0
  /\ is_player_turn = TRUE
  /\ result = IN_PROGRESS
  /\ action_history = <<>>
  /\ last = Call("init", NoAction, "returned", ActionResult(TRUE, ""))
  /\ n_end_turn = 0
  /\ SingleBattle
  /\ state \in EngineSetups
  /\ config \in EngineConfigs
  /\ elast = "init"

NextBoth == EndTurn \/ Surrender \/ engine_end_turn \/ engine_surrender

SpecBoth == InitBoth /\ [][NextBoth]_vars

(***************************************************************************)
(* Properties of the simulator battle                                      *)
(***************************************************************************)
\* every unit of both rosters
AllUnits ==
  { player_units[k] : k \in 1..Len(player_units) }
    \cup { enemy_units[k] : k \in 1..Len(enemy_units) }

\* the legal actions of the current state, as a set
LegalActionSet ==
  LET legal == get_legal_actions(player_units, enemy_units, is_player_turn)
  IN { legal[k] : k \in 1..Len(legal) }

\* C1: a new battle has is_player_turn = true and turn_number = 0, and after
\* n end_turn() calls, with any other calls in between, is_player_turn is
\* (n is even) and turn_number is floor(n / 2).
C1_TurnOrder ==
  /\ is_player_turn = (n_end_turn % 2 = 0)
  /\ turn_number = n_end_turn \div 2

\* three end_turn() calls around an executed action: the enemy is to move in turn 1
C1_Witness ==
  /\ n_end_turn = 3
  /\ action_history # <<>>
  /\ ~is_player_turn
  /\ turn_number = 1

\* C2: result starts IN_PROGRESS, and once it is PLAYER_WIN, ENEMY_WIN or
\* SURRENDER no later end_turn(), execute_action() or surrender() changes it.
C2_ResultTerminal ==
  /\ (last.op = "init" => result = IN_PROGRESS)
  /\ [][result # IN_PROGRESS => result' = result]_vars

\* C3: execute_action returns success = false and leaves the whole battle
\* state unmodified whenever the action is not among the actions
\* get_legal_actions() returns for the current state (stated here for the
\* calls that return; the calls that raise are the matter of C4).
C3_InvalidActionRejected ==
  [][(/\ last'.op = "execute_action"
      /\ last'.outcome = "returned"
      /\ last'.action \notin LegalActionSet)
       => /\ ~last'.result.success
          /\ UNCHANGED battle_vars]_vars

\* C4: execute_action never raises: every call returns an ActionResult.
C4_NeverRaises ==
  last.op = "execute_action" => last.outcome = "returned"

\* C5 (as stated): every execute_action call, successful or failed, appends
\* exactly one (action, result) pair to action_history, and no other
\* operation changes action_history.
C5_EveryCallRecorded ==
  [][IF last'.op = "execute_action"
     THEN action_history' = Append(action_history, <<last'.action, last'.result>>)
     ELSE action_history' = action_history]_vars

\* C5 (amended): an execute_action call that returns success = true appends
\* exactly one (action, result) pair to action_history; a call that returns
\* success = false or raises, and every end_turn() and surrender(), leave
\* action_history unchanged.
C5_ExecutedActionsRecorded ==
  [][IF last'.op = "execute_action" /\ last'.outcome = "returned"
          /\ last'.result.success
     THEN action_history' = Append(action_history, <<last'.action, last'.result>>)
     ELSE action_history' = action_history]_vars

\* an executed attack that dealt damage is the one entry of the history
C5_Witness ==
  /\ last.op = "execute_action"
  /\ last.result.success
  /\ DOMAIN last.result.damage_dealt # {}
  /\ action_history = << <<last.action, last.result>> >>

\* C6: after any sequence of execute_action and end_turn calls every unit
\* of both sides has current_hp >= 0 and current_armor >= 0.
C6_NonNegative ==
  \A unit \in AllUnits : unit.current_hp >= 0 /\ unit.current_armor >= 0

\* a hit that dealt more damage than the target's full HP left it at 0 HP
C6_Witness ==
  /\ last.op = "execute_action"
  /\ last.outcome = "returned"
  /\ \E unit \in AllUnits :
       /\ unit.current_hp = 0
       /\ \E idx \in DOMAIN last.result.damage_dealt :
            last.result.damage_dealt[idx] > Templates[unit.template].hp

\* C7: a unit is dead exactly when its HP is 0; a dead unit never becomes
\* alive again and its HP and armor never change again; it is never the
\* actor of a legal action and its position is never a valid target of the
\* opposing side.
C7_DeadUnits ==
  /\ [](\A unit \in AllUnits : unit.is_alive <=> unit.current_hp > 0)
  /\ [](\A ipt \in BOOLEAN :
          LET legal == get_legal_actions(player_units, enemy_units, ipt)
              mine == current_side_units(player_units, enemy_units, ipt)
              theirs == opposing_side_units(player_units, enemy_units, ipt)
          IN \A k \in 1..Len(legal) :
               /\ mine[legal[k].unit_index + 1].is_alive
               /\ \A t \in 1..Len(theirs) :
                    theirs[t].position = legal[k].target_position => theirs[t].is_alive)
  /\ [][/\ \A k \in 1..Len(player_units) :
             ~player_units[k].is_alive =>
               /\ ~player_units'[k].is_alive
               /\ player_units'[k].current_hp = 0
               /\ player_units'[k].current_armor = player_units[k].current_armor
        /\ \A k \in 1..Len(enemy_units) :
             ~enemy_units[k].is_alive =>
               /\ ~enemy_units'[k].is_alive
               /\ enemy_units'[k].current_hp = 0
               /\ enemy_units'[k].current_armor = enemy_units[k].current_armor]_vars

\* a unit killed by an executed action, and an end_turn() made afterwards
C7_Witness ==
  /\ last.op = "end_turn"
  /\ action_history # <<>>
  /\ action_history[1][2].kills # <<>>
  /\ \E unit \in AllUnits : ~unit.is_alive /\ unit.current_hp = 0

\* C8: after every end_turn() the result is PLAYER_WIN if the enemy side has
\* no unit that is alive and not flagged unimportant, ENEMY_WIN if the player
\* side has none while the enemy side has one, and is left as it was if both
\* sides have one; living units flagged unimportant do not count.
C8_BattleEnd ==
  [][n_end_turn' = n_end_turn + 1 =>
       LET player_alive == \E k \in 1..Len(player_units') :
                             /\ player_units'[k].is_alive
                             /\ ~Templates[player_units'[k].template].unimportant
           enemy_alive == \E k \in 1..Len(enemy_units') :
                            /\ enemy_units'[k].is_alive
                            /\ ~Templates[enemy_units'[k].template].unimportant
       IN /\ ~enemy_alive => result' = PLAYER_WIN
          /\ (enemy_alive /\ ~player_alive) => result' = ENEMY_WIN
          /\ (enemy_alive /\ player_alive) => result' = result]_vars

\* an end_turn() that found a side lost although a unit of it flagged
\* unimportant is alive
C8_Witness ==
  /\ last.op = "end_turn"
  /\ \/ /\ result = PLAYER_WIN
        /\ \E k \in 1..Len(enemy_units) :
             enemy_units[k].is_alive /\ Templates[enemy_units[k].template].unimportant
     \/ /\ result = ENEMY_WIN
        /\ \E k \in 1..Len(player_units) :
             player_units[k].is_alive /\ Templates[player_units[k].template].unimportant

\* C10: get_legal_actions() returns exactly the triples (unit_index,
\* weapon_id, target_position) whose unit is of the side to move, alive, not
\* stunned, with global cooldown 0, whose weapon has cooldown 0 and, with
\* limited ammo, ammo > 0, and whose target_position is the position of a
\* living unit of the opposing side that passes the tag, range and
\* line-of-fire checks of the weapon's ability.
C10_LegalActionsExact ==
  LET mine == current_side_units(player_units, enemy_units, is_player_turn)
      theirs == opposing_side_units(player_units, enemy_units, is_player_turn)
      stunned(unit) ==
        \E i \in 1..Len(unit.status_effects) :
          /\ StatusEffects[unit.status_effects[i].effect].effect_type = STUN
          /\ StatusEffects[unit.status_effects[i].effect].stun_block_action
      usable(unit, w) ==
        /\ unit.is_alive
        /\ ~stunned(unit)
        /\ unit.global_cooldown = 0
        /\ Get(unit.weapon_cooldowns, w, 0) = 0
        /\ Weapons[w].ammo >= 0 => Get(unit.ammo, w, 0) > 0
      passes(unit, w, target) ==
        /\ target.is_alive
        /\ Weapons[w].abilities # <<>>
        /\ get_ability(Weapons[w].abilities[1]) # NoAbility
        /\ _can_target_unit(player_units, enemy_units, unit, target,
                            get_ability(Weapons[w].abilities[1])[1])
      claimed ==
        { Action(i - 1, w, theirs[t].position) :
            <<i, w, t>> \in
              { x \in (1..Len(mine)) \X (DOMAIN Weapons) \X (1..Len(theirs)) :
                  /\ x[2] \in Templates[mine[x[1]].template].weapons
                  /\ usable(mine[x[1]], x[2])
                  /\ passes(mine[x[1]], x[2], theirs[x[3]]) } }
      legal == get_legal_actions(player_units, enemy_units, is_player_turn)
  IN /\ LegalActionSet = claimed
     /\ Len(legal) = Cardinality(claimed)

\* the side to move has legal actions while one of its units, alive, not
\* stunned and off global cooldown, holds a weapon whose ammo is spent
C10_Witness ==
  /\ LegalActionSet # {}
  /\ \E unit \in AllUnits :
       /\ unit.battle_side = (IF is_player_turn THEN PLAYER_TEAM ELSE ENEMY_TEAM)
       /\ can_act(unit)
       /\ unit.global_cooldown = 0
       /\ \E w \in DOMAIN unit.ammo :
            /\ Weapons[w].ammo > 0
            /\ unit.ammo[w] <= 0
            /\ Get(unit.weapon_cooldowns, w, 0) = 0

\* C11: applying a status effect to a unit that already holds an active
\* instance of the same effect family adds no second instance (the held
\* instance is refreshed to the template duration and keeps the larger
\* source_damage); hence, after any sequence of hits, a unit holds at most
\* one active instance per effect family.
C11_OneInstancePerFamily ==
  \A unit \in AllUnits :
    \A i, j \in 1..Len(unit.status_effects) :
      StatusEffects[unit.status_effects[i].effect].family
        = StatusEffects[unit.status_effects[j].effect].family => i = j

\* C12: each end-of-turn processing of a unit decrements remaining_turns of
\* every active effect on it by exactly 1 and removes the instance when it
\* reaches 0, so that an effect of duration d that is not re-applied is
\* processed on d consecutive end_turn() calls of its unit's side and is
\* absent afterwards; every stored instance has
\* 1 <= remaining_turns <= template duration.  end_turn() processes the
\* units of the side that moved and leaves the effects of the other side.
C12_EffectsTickAndExpire ==
  /\ [](\A unit \in AllUnits :
          \A i \in 1..Len(unit.status_effects) :
            /\ unit.status_effects[i].remaining_turns >= 1
            /\ unit.status_effects[i].remaining_turns
                 <= StatusEffects[unit.status_effects[i].effect].duration)
  /\ [][n_end_turn' = n_end_turn + 1 =>
          LET decremented(effects) ==
                [i \in 1..Len(effects) |->
                   [effects[i] EXCEPT !.remaining_turns = @ - 1]]
              left(effect) == effect.remaining_turns # 0
              ticked(effects) == SelectSeq(decremented(effects), left)
          IN /\ \A k \in 1..Len(player_units) :
                  player_units'[k].status_effects =
                    IF is_player_turn THEN ticked(player_units[k].status_effects)
                    ELSE player_units[k].status_effects
             /\ \A k \in 1..Len(enemy_units) :
                  enemy_units'[k].status_effects =
                    IF is_player_turn THEN enemy_units[k].status_effects
                    ELSE ticked(enemy_units[k].status_effects)]_vars

\* an effect of duration 2 was applied by the executed action, two
\* end_turn() calls of its unit's side have processed it, and no unit holds
\* an effect any more
C12_Witness ==
  /\ last.op = "end_turn"
  /\ n_end_turn >= 3
  /\ action_history # <<>>
  /\ \E k \in 1..Len(action_history[1][2].status_applied) :
       StatusEffects[action_history[1][2].status_applied[k][2]].duration = 2
  /\ \A unit \in AllUnits : unit.status_effects = <<>>

\* C14: a dodged (missed) hit is fully negated: the target's current_hp,
\* current_armor, liveness and status-effect list are unchanged and the
\* ActionResult gains no damage_dealt, kills or status_applied entry for it.
\* A target of the executed attack dodged when it was alive and the result
\* holds no damage_dealt entry under its index.
C14_DodgeNegated ==
  [][(/\ last'.op = "execute_action"
      /\ last'.outcome = "returned"
      /\ last'.result.success) =>
       LET stats == get_ability(Weapons[last'.action.weapon_id].abilities[1])[1]
           targets == _get_aoe_targets(player_units, enemy_units,
                                       last'.action.target_position, stats)
           res == last'.result
       IN \A t \in 1..Len(targets) :
            LET before == UnitOf(player_units, enemy_units, targets[t].ref)
                after == UnitOf(player_units', enemy_units', targets[t].ref)
                idx == _get_unit_index(player_units, enemy_units,
                                       player_is_attacker, before)
            IN (before.is_alive /\ idx \notin DOMAIN res.damage_dealt) =>
                 /\ after.current_hp = before.current_hp
                 /\ after.current_armor = before.current_armor
                 /\ after.is_alive
                 /\ after.status_effects = before.status_effects
                 /\ \A j \in 1..Len(res.kills) : res.kills[j] # idx
                 /\ \A j \in 1..Len(res.status_applied) :
                      res.status_applied[j][1] # idx]_vars

\* an executed attack on an occupied position that every target dodged
C14_Witness ==
  /\ last.op = "execute_action"
  /\ last.outcome = "returned"
  /\ last.result.success
  /\ DOMAIN last.result.damage_dealt = {}
  /\ get_unit_at_position(player_units, enemy_units,
                          last.action.target_position) # NoUnit

\* C15: every successful (non-dodged) hit on a living unit deals at least 1
\* total damage: the target's HP loss plus its armor loss is >= 1.  A target
\* of the executed attack was hit when the result holds a damage_dealt entry
\* under its index and no other target shares that index.
C15_MinimumOneDamage ==
  [][(/\ last'.op = "execute_action"
      /\ last'.outcome = "returned"
      /\ last'.result.success) =>
       LET stats == get_ability(Weapons[last'.action.weapon_id].abilities[1])[1]
           targets == _get_aoe_targets(player_units, enemy_units,
                                       last'.action.target_position, stats)
           idx(t) == _get_unit_index(player_units, enemy_units, player_is_attacker,
                                     UnitOf(player_units, enemy_units, targets[t].ref))
       IN \A t \in 1..Len(targets) :
            LET before == UnitOf(player_units, enemy_units, targets[t].ref)
                after == UnitOf(player_units', enemy_units', targets[t].ref)
            IN (/\ before.is_alive
                /\ idx(t) \in DOMAIN last'.result.damage_dealt
                /\ \A u \in 1..Len(targets) : idx(u) = idx(t) => u = t) =>
                 (before.current_hp - after.current_hp)
                   + (before.current_armor - after.current_armor) >= 1]_vars

\* C20: a successful execute_action sets the acting unit's cooldown for the
\* used weapon to the ability's ability_cooldown, sets its global_cooldown
\* to the ability's global_cooldown when that is > 0, and takes exactly 1
\* from the used weapon's ammo when the weapon has limited ammo
\* (capacity >= 0); the actor's other weapons' cooldowns and ammo and its
\* own HP, armor and position are unchanged.
C20_ActorBookkeeping ==
  [][(/\ last'.op = "execute_action"
      /\ last'.outcome = "returned"
      /\ last'.result.success) =>
       LET action == last'.action
           weapon_id == action.weapon_id
           stats == get_ability(Weapons[weapon_id].abilities[1])[1]
           units == current_side_units(player_units, enemy_units, is_player_turn)
           units_after == current_side_units(player_units', enemy_units', is_player_turn)
           k == IF action.unit_index >= 0 THEN action.unit_index + 1
                ELSE Len(units) + action.unit_index + 1
           before == units[k]
           after == units_after[k]
       IN /\ Get(after.weapon_cooldowns, weapon_id, 0) = stats.ability_cooldown
          /\ stats.global_cooldown > 0 => after.global_cooldown = stats.global_cooldown
          /\ Weapons[weapon_id].ammo >= 0 =>
               /\ weapon_id \in DOMAIN after.ammo
               /\ after.ammo[weapon_id] = Get(before.ammo, weapon_id, 0) - 1
          /\ \A w \in (DOMAIN before.weapon_cooldowns \cup DOMAIN after.weapon_cooldowns)
                        \ {weapon_id} :
               /\ w \in DOMAIN before.weapon_cooldowns
               /\ w \in DOMAIN after.weapon_cooldowns
               /\ after.weapon_cooldowns[w] = before.weapon_cooldowns[w]
          /\ \A w \in (DOMAIN before.ammo \cup DOMAIN after.ammo) \ {weapon_id} :
               /\ w \in DOMAIN before.ammo
               /\ w \in DOMAIN after.ammo
               /\ after.ammo[w] = before.ammo[w]
          /\ after.current_hp = before.current_hp
          /\ after.current_armor = before.current_armor
          /\ after.position = before.position]_vars

\* C30: an action only harms the side opposing the actor.  After an
\* execute_action call by a unit of the current side has returned, every
\* unit of the acting side has the HP, armor, liveness and status effects it
\* had before the call, also when it stands at the coordinates, on its own
\* grid, of the targeted or splashed position of the opposing grid.
C30_ActingSideUnharmed ==
  [][(/\ last'.op = "execute_action"
      /\ last'.outcome = "returned") =>
       LET units == current_side_units(player_units, enemy_units, is_player_turn)
           units_after == current_side_units(player_units', enemy_units', is_player_turn)
       IN /\ Len(units_after) = Len(units)
          /\ \A i \in 1..Len(units) :
               /\ units_after[i].current_hp = units[i].current_hp
               /\ units_after[i].current_armor = units[i].current_armor
               /\ units_after[i].is_alive = units[i].is_alive
               /\ units_after[i].status_effects = units[i].status_effects]_vars

\* C19: battles are reproducible from the seed.  Of two BattleState
\* instances built from the same placements and given the same seed,
\* whenever the same sequence of execute_action / end_turn calls was made on
\* both, in whatever order the calls on the two instances were interleaved,
\* the last call returned the same ActionResult (or raised the same
\* exception) on both and both are in the same state: units (HP, armor,
\* ammo, cooldowns, status effects, liveness), turn, side to move, result
\* and action history with its ActionResults.
C19_SeedReproducible ==
  calls = other.calls =>
    /\ last = other.last
    /\ player_units = other.player_units
    /\ enemy_units = other.enemy_units
    /\ turn_number = other.turn_number
    /\ is_player_turn = other.is_player_turn
    /\ result = other.result
    /\ action_history = other.action_history

\* both instances went through the same two calls, the last one an attack
\* that hit and applied a status effect, after draws from the generator
C19_Witness ==
  /\ calls = other.calls
  /\ Len(calls) >= 2
  /\ rng.pos >= 4
  /\ other.rng.pos = rng.pos
  /\ last.op = "execute_action"
  /\ last.outcome = "returned"
  /\ DOMAIN last.result.damage_dealt # {}
  /\ last.result.status_applied # <<>>
  /\ other.last.result.status_applied # <<>>

\* C27: per resolved hit the draws are consumed in the order dodge roll,
\* base-damage draw (skipped when the weapon's minimum and maximum damage
\* are equal), critical roll, status-effect application rolls; a dodged hit
\* consumes the dodge roll and nothing after it.  Stated for an executed
\* attack with one living target: the hit is dodged exactly when the first
\* draw of the call fails the hit chance, a dodged hit advances the
\* generator by 1, and a landed hit by 1 (dodge) + 1 (base damage, unless
\* minimum = maximum) + 1 (critical) + one per status effect of the ability.
C27_DrawOrder ==
  [][(/\ calls' = Append(calls, <<"execute_action", last'.action>>)
      /\ last'.outcome = "returned"
      /\ last'.result.success) =>
       LET weapon == Weapons[last'.action.weapon_id]
           stats == get_ability(weapon.abilities[1])[1]
           targets == _get_aoe_targets(player_units, enemy_units,
                                       last'.action.target_position, stats)
           units == current_side_units(player_units, enemy_units, is_player_turn)
           attacker == units[last'.action.unit_index + 1]
       IN (Len(targets) = 1
             /\ UnitOf(player_units, enemy_units, targets[1].ref).is_alive) =>
            LET target_unit == UnitOf(player_units, enemy_units, targets[1].ref)
                dodged == DOMAIN last'.result.damage_dealt = {}
                consumed == rng'.pos - rng.pos
            IN /\ dodged <=> (random100(generated'[rng.pos + 1])
                                > _calculate_hit_chance(attacker, target_unit))
               /\ dodged => consumed = 1
               /\ ~dodged =>
                    consumed = 1 + (IF weapon.base_damage_max > weapon.base_damage_min
                                    THEN 1 ELSE 0)
                                 + 1 + Len(stats.status_effects)]_vars

\* C28: end_turn() processes only the side that just acted.  For each unit
\* of that side every positive weapon cooldown and a positive global
\* cooldown decrease by exactly 1, the others stay (none goes below 0), and
\* the status effects are ticked: each remaining_turns decreases by 1 and
\* the effects left without a turn are removed.  Every unit of the other
\* side is unchanged (HP, armor, ammo, cooldowns, status effects).  So a
\* weapon cooldown c > 0 read right after execute_action is c - 1 after the
\* actor's end_turn followed by the opponent's end_turn.
C28_EndTurnTicksActingSide ==
  [][/\ n_end_turn' = n_end_turn + 1 =>
          LET acted == current_side_units(player_units, enemy_units, is_player_turn)
              acted_after == current_side_units(player_units', enemy_units',
                                                is_player_turn)
              Ticked(effects) ==
                LET decremented == [i \in 1..Len(effects) |->
                                      [effects[i] EXCEPT !.remaining_turns = @ - 1]]
                    keeps(status) == status.remaining_turns > 0
                IN SelectSeq(decremented, keeps)
          IN /\ Len(acted_after) = Len(acted)
             /\ \A k \in 1..Len(acted) :
                  /\ acted_after[k].global_cooldown =
                       (IF acted[k].global_cooldown > 0
                        THEN acted[k].global_cooldown - 1 ELSE acted[k].global_cooldown)
                  /\ acted_after[k].global_cooldown >= 0
                  /\ DOMAIN acted_after[k].weapon_cooldowns = DOMAIN acted[k].weapon_cooldowns
                  /\ \A w \in DOMAIN acted[k].weapon_cooldowns :
                       /\ acted_after[k].weapon_cooldowns[w] =
                            (IF acted[k].weapon_cooldowns[w] > 0
                             THEN acted[k].weapon_cooldowns[w] - 1
                             ELSE acted[k].weapon_cooldowns[w])
                       /\ acted_after[k].weapon_cooldowns[w] >= 0
                  /\ acted_after[k].status_effects = Ticked(acted[k].status_effects)
             /\ opposing_side_units(player_units', enemy_units', is_player_turn)
                  = opposing_side_units(player_units, enemy_units, is_player_turn)
     /\ (/\ last'.op = "execute_action"
         /\ last'.outcome = "returned"
         /\ last'.result.success
         /\ n_end_turn' = n_end_turn) =>
          LET w == last'.action.weapon_id
              units == current_side_units(player_units', enemy_units', is_player_turn)
              k == IF last'.action.unit_index >= 0 THEN last'.action.unit_index + 1
                   ELSE Len(units) + last'.action.unit_index + 1
              c == Get(units[k].weapon_cooldowns, w, 0)
              \* the actor's end_turn ticks its side; the opponent's end_turn
              \* leaves that side as it is
              after_own == EndOfTurnTick(units)
          IN c > 0 => after_own[k].weapon_cooldowns[w] = c - 1]_vars

\* the turn of a side ended on which a unit held a weapon cooldown that went
\* down to a value it keeps, next to a weapon cooldown of 0 that stayed,
\* while a unit of the other side carries a status effect
C28_Witness ==
  /\ last.op = "end_turn"
  /\ action_history # <<>>
  /\ LET acted == current_side_units(player_units, enemy_units, ~is_player_turn)
         idle == current_side_units(player_units, enemy_units, is_player_turn)
     IN /\ \E k \in 1..Len(acted) :
             \E w \in DOMAIN acted[k].weapon_cooldowns :
               /\ acted[k].weapon_cooldowns[w] = 0
               /\ get_ability(Weapons[w].abilities[1])[1].ability_cooldown >= 1
        /\ \E k \in 1..Len(idle) : idle[k].status_effects # <<>>

\* C29: BattleSimulator.run_battle, given policies that return an action
\* whenever legal actions exist, returns; every loop iteration called
\* end_turn exactly once; a run started with turn_number <= max_turns made
\* at most 2 * max_turns iterations and ends with turn_number <= max_turns;
\* and the battle is left IN_PROGRESS only when the turn limit was reached.
C29_RunBattleTerminates ==
  [][last'.op = "run_battle" =>
       /\ last'.outcome = "returned"
       /\ n_end_turn' - n_end_turn = last'.action.iterations
       /\ turn_number <= last'.action.max_turns =>
            /\ last'.action.iterations <= 2 * last'.action.max_turns
            /\ turn_number' <= last'.action.max_turns
       /\ result' = IN_PROGRESS => turn_number' >= last'.action.max_turns]_vars

\* C23: the damage execute_action reports for a unit in
\* ActionResult.damage_dealt, under the unit's index in its own side's list,
\* equals the amount by which that unit's current_hp decreased during the
\* action, on armored targets and on killing hits too.  Stated for the
\* targets whose index no other target of the attack shares.
C23_ReportedDamageIsHpLoss ==
  [][(/\ last'.op = "execute_action"
      /\ last'.outcome = "returned"
      /\ last'.result.success) =>
       LET stats == get_ability(Weapons[last'.action.weapon_id].abilities[1])[1]
           targets == _get_aoe_targets(player_units, enemy_units,
                                       last'.action.target_position, stats)
           idx(t) == _get_unit_index(player_units, enemy_units, player_is_attacker,
                                     UnitOf(player_units, enemy_units, targets[t].ref))
       IN \A t \in 1..Len(targets) :
            LET before == UnitOf(player_units, enemy_units, targets[t].ref)
                after == UnitOf(player_units', enemy_units', targets[t].ref)
            IN (/\ before.is_alive
                /\ idx(t) \in DOMAIN last'.result.damage_dealt
                /\ \A u \in 1..Len(targets) : idx(u) = idx(t) => u = t) =>
                 last'.result.damage_dealt[idx(t)]
                   = before.current_hp - after.current_hp]_vars

(***************************************************************************)
(* Properties of the engine battle                                         *)
(***************************************************************************)
\* C9: when BattleEngine.end_turn finds every enemy unit dead while more
\* waves remain (current_wave < total_waves - 1), the battle goes on with
\* is_finished and player_won still false and current_wave not modified.
\* Stated for an unfinished battle with a living player unit, below the
\* turn limit.
C9_WaveLeftToOrchestrator ==
  [][(/\ elast' = "end_turn"
      /\ state'.turn_number = state.turn_number + 1
      /\ ~state.is_finished
      /\ state.turn_number + 1 < config.max_turns
      /\ AnyAlive(state'.player_units)
      /\ ~AnyAlive(state'.enemy_units)
      /\ state.current_wave < state.total_waves - 1)
       => /\ state'.is_finished = FALSE
          /\ state'.player_won = FALSE
          /\ state'.current_wave = state.current_wave]_vars

\* C13: a DOT effect marked diminishing, applied with tick amount D and
\* duration d, deals floor(D * (d - t + 1) / d) on its t-th tick, computed
\* from the original D; a non-diminishing DOT deals D on every tick.  With
\* d - t + 1 = remaining_turns: the DOT damage an end_turn() books in the
\* battle statistics is the sum of these amounts over the effects of the
\* living units of the side that moved.
C13_DotDecay ==
  [][(elast' = "end_turn" /\ state'.turn_number = state.turn_number + 1) =>
       LET units == IF state.is_player_turn THEN state.player_units
                    ELSE state.enemy_units
           tick(effect) ==
             IF effect.effect_type # DOT THEN 0
             ELSE IF effect.dot_diminishing
             THEN Trunc(effect.applied_damage8 * effect.remaining_turns,
                        8 * effect.duration)
             ELSE effect.applied_damage8 \div 8
           RECURSIVE EffectTicks(_, _)
           EffectTicks(effects, i) ==
             IF i > Len(effects) THEN 0
             ELSE tick(effects[i]) + EffectTicks(effects, i + 1)
           RECURSIVE UnitTicks(_)
           UnitTicks(k) ==
             IF k > Len(units) THEN 0
             ELSE (IF engine_is_alive(units[k])
                   THEN EffectTicks(units[k].status_effects, 1) ELSE 0)
                  + UnitTicks(k + 1)
       IN (state'.total_damage_dealt + state'.total_damage_taken)
            - (state.total_damage_dealt + state.total_damage_taken)
          = UnitTicks(1)]_vars


\* C25: BattleEngine.simulate_random_battle always returns, with a state
\* that has is_finished = true and turn_number > 0, after at most max_turns
\* iterations, each of which calls end_turn exactly once (so the turn number
\* grew by the number of iterations); and every end_turn call increments
\* turn_number by 1, hands the move to the other side, and leaves the battle
\* finished with player_won = false once turn_number >= max_turns.
C25_SimulationFinishes ==
  [][/\ elast' \in {"simulate_random_battle", "simulate_random_battle raised"} =>
          /\ elast' = "simulate_random_battle"
          /\ state'.is_finished
          /\ state'.turn_number > 0
          /\ state'.turn_number - state.turn_number <= config.max_turns
     /\ elast' = "end_turn" =>
          /\ state'.turn_number = state.turn_number + 1
          /\ state'.is_player_turn = ~state.is_player_turn
          /\ state'.turn_number >= config.max_turns =>
               (state'.is_finished /\ ~state'.player_won)]_vars

(***************************************************************************)
(* Properties of surrender in both battles (SpecBoth)                      *)
(***************************************************************************)
\* C22 as stated: surrender() puts the battle in the terminal surrender
\* state at once, whatever the unit counts, the side to move and the engine
\* configuration, and modifies no unit: BattleState.surrender leaves
\* result = SURRENDER, BattleEngine.surrender leaves is_finished = true,
\* player_won = false and surrendered = true.
C22_SurrenderAlways ==
  [][/\ last'.op = "surrender" =>
          /\ result' = SURRENDER
          /\ UNCHANGED <<player_units, enemy_units>>
     /\ elast' = "surrender" =>
          /\ state'.is_finished
          /\ ~state'.player_won
          /\ state'.surrendered
          /\ state'.player_units = state.player_units
          /\ state'.enemy_units = state.enemy_units]_vars

\* C22, amended: BattleState.surrender always leaves result = SURRENDER and
\* modifies no unit; BattleEngine.surrender leaves is_finished = true,
\* player_won = false and surrendered = true when the configuration has
\* allow_surrender set, and leaves the whole battle state as it was when it
\* has not; it modifies no unit either way.
C22_SurrenderWhenAllowed ==
  [][/\ last'.op = "surrender" =>
          /\ result' = SURRENDER
          /\ UNCHANGED <<player_units, enemy_units>>
     /\ (elast' = "surrender" /\ config.allow_surrender) =>
          /\ state'.is_finished
          /\ ~state'.player_won
          /\ state'.surrendered
          /\ state'.player_units = state.player_units
          /\ state'.enemy_units = state.enemy_units
     /\ (elast' = "surrender" /\ ~config.allow_surrender) => state' = state]_vars

\* both battles were surrendered on the enemy's turn, with living units
\* left on both sides of each
C22_Witness ==
  /\ last.op = "surrender"
  /\ result = SURRENDER
  /\ ~is_player_turn
  /\ SideAlive(player_units) /\ SideAlive(enemy_units)
  /\ elast = "surrender"
  /\ state.surrendered /\ state.is_finished /\ ~state.player_won
  /\ ~state.is_player_turn
  /\ AnyAlive(state.player_units) /\ AnyAlive(state.enemy_units)

(***************************************************************************)
(* Properties of the combat systems (SpecCombat)                           *)
(***************************************************************************)
\* C16: DamageCalculator.apply_damage on a living unit with 100 armor and a
\* piercing armor modifier of 0.6 (effective capacity int(100 / 0.6) = 166),
\* hit for 150 armorable piercing damage with no armor piercing and no stun
\* bypass, returns with the armor fully depleted (current_armor becomes 0)
\* and sends no overflow to HP (current_hp unchanged).
C16_ArmorDepletedNoOverflow ==
  [][\A k \in 1..Len(enemy_units) :
       ( /\ last'.op = "apply_damage"
         /\ last'.action.target = k
         /\ last'.action.damage = 150
         /\ last'.action.damage_type = PIERCING
         /\ last'.action.armor_piercing = 0
         /\ ~last'.action.bypass
         /\ enemy_units[k].is_alive
         /\ enemy_units[k].current_armor = 100
         /\ Get(Templates[enemy_units[k].template].armor_damage_mods,
                "piercing", 100) = 60
         /\ Trunc(100 * 100, 60) = 166 )
       => /\ last'.outcome = "returned"
          /\ enemy_units'[k].current_armor = 0
          /\ enemy_units'[k].current_hp = enemy_units[k].current_hp]_vars


\* C17: should_bypass_armor(unit) holds exactly when the unit's
\* armor_def_style is 1 and it holds a stun effect with stun_block_action;
\* and a hit applied by apply_damage with the bypass in effect on such a
\* living unit with current_armor > 0 returns, leaves the armor unchanged
\* and subtracts the whole damage times the HP damage modifier from HP
\* (floored at 0), whatever the armor piercing.
C17_StunBypassesArmor ==
  [][\A k \in 1..Len(enemy_units) :
       LET unit == enemy_units[k]
           stats == Templates[unit.template]
           stunned == \E i \in 1..Len(unit.status_effects) :
                        /\ StatusEffects[unit.status_effects[i].effect].effect_type = STUN
                        /\ StatusEffects[unit.status_effects[i].effect].stun_block_action
           hp_damage == Trunc(last'.action.damage
                                * Get(stats.damage_mods, "piercing", 100), 100)
       IN /\ should_bypass_armor(unit) <=> (stats.armor_def_style = 1 /\ stunned)
          /\ ( /\ last'.op = "apply_damage"
               /\ last'.action.target = k
               /\ last'.action.bypass
               /\ last'.action.damage_type = PIERCING
               /\ should_bypass_armor(unit)
               /\ unit.is_alive
               /\ unit.current_armor > 0 )
             => /\ last'.outcome = "returned"
                /\ enemy_units'[k].current_armor = unit.current_armor
                /\ enemy_units'[k].current_hp = Max2(0, unit.current_hp - hp_damage)]_vars


\* C18: TargetingSystem.check_line_of_fire returns for DIRECT and for
\* INDIRECT fire; DIRECT fire at a target is reported blocked exactly when a living unit
\* of the target's side other than the target stands in the target's
\* column at a strictly smaller row with blocking >= PARTIAL (1), dead
\* units never blocking; INDIRECT fire is never reported blocked.
C18_LineOfFireBlocking ==
  [][\A k \in 1..Len(enemy_units) :
       LET target_pos == enemy_units[k].position
           partial_in_front ==
             \E j \in 1..Len(enemy_units) :
               /\ enemy_units[j].is_alive
               /\ enemy_units[j].position # target_pos
               /\ enemy_units[j].position[1] = target_pos[1]
               /\ enemy_units[j].position[2] < target_pos[2]
               /\ Templates[enemy_units[j].template].blocking >= 1
       IN ( /\ last'.op = "check_line_of_fire"
            /\ last'.action.target = k
            /\ last'.action.line_of_fire \in {LOF_DIRECT, LOF_INDIRECT} )
          => /\ last'.outcome = "returned"
             /\ last'.action.line_of_fire = LOF_DIRECT
                  => (last'.result.flag <=> partial_in_front)
             /\ last'.action.line_of_fire = LOF_INDIRECT
                  => ~last'.result.flag]_vars


\* C26: DamageCalculator.apply_damage on a living target without stun
\* bypass returns and splits the damage.  With current_armor > 0,
\* piercing = floor(damage * armor_piercing%), remainder = damage - piercing
\* and effective_capacity = floor(current_armor / armor_mod): when
\* remainder <= effective_capacity the armor loses floor(remainder * armor_mod)
\* and HP loses floor(piercing * hp_mod); otherwise the armor drops to 0 and
\* HP loses floor((remainder - effective_capacity + piercing) * hp_mod).
\* With current_armor = 0 HP loses floor(damage * hp_mod) and the armor
\* stays.  (HP stops at 0.)
C26_ArmorHpSplit ==
  [][\A k \in 1..Len(enemy_units) :
       ( /\ last'.op = "apply_damage"
         /\ last'.action.target = k
         /\ last'.action.damage_type = PIERCING
         /\ enemy_units[k].is_alive
         /\ ~(last'.action.bypass /\ enemy_units[k].current_armor > 0) )
       => LET target == enemy_units[k]
              after == enemy_units'[k]
              damage == last'.action.damage
              hp_mod == Get(Templates[target.template].damage_mods, "piercing", 100)
              armor_mod == Get(Templates[target.template].armor_damage_mods,
                               "piercing", 100)
              piercing == Trunc(damage * last'.action.armor_piercing, 100)
              remainder == damage - piercing
              effective_capacity == IF armor_mod > 0
                                    THEN Trunc(target.current_armor * 100, armor_mod)
                                    ELSE target.current_armor
              armor_loss == IF target.current_armor = 0 THEN 0
                            ELSE IF remainder <= effective_capacity
                            THEN Trunc(remainder * armor_mod, 100)
                            ELSE target.current_armor
              hp_loss == IF target.current_armor = 0 THEN Trunc(damage * hp_mod, 100)
                         ELSE IF remainder <= effective_capacity
                         THEN Trunc(piercing * hp_mod, 100)
                         ELSE Trunc((remainder - effective_capacity + piercing) * hp_mod,
                                    100)
          IN /\ last'.outcome = "returned"
             /\ after.current_armor = target.current_armor - armor_loss
             /\ after.current_hp = Max2(0, target.current_hp - hp_loss)]_vars

(***************************************************************************)
(* Properties of the calculators (SpecCalc)                                *)
(***************************************************************************)
\* C21: for all integer values of defender defense, attacker accuracy and
\* ability attack, of either sign and of any magnitude, the dodge test of
\* calculate_damage goes through and the chance it compares with the roll
\* is clamp(defense - (attack + accuracy) + 5, 0, 95), a value in [0, 95].
C21_DodgeChanceClamped ==
  last.op = "dodge_chance" =>
    LET raw == BigPlus(BigMinus(last.action.defense,
                                BigPlus(last.action.attack, last.action.accuracy)),
                       BigInt(0, 5))
        clamp == IF BigAtMost(raw, 0) THEN 0
                 ELSE IF BigAtMost(raw, 95) THEN raw.lo ELSE 95
    IN /\ last.outcome = "returned"
       /\ last.result.amount = clamp
       /\ last.result.amount \in 0..95

\* C24: resolving a target pattern of type SINGLE.  Marked random: exactly
\* one impact point, the listed offset picked by the cumulative-weight draw
\* (with zero total weight the aim point itself at 100%).  Not random with
\* all listed offsets (0,0): the aim point is the only impact point.  Not
\* random with some listed offset non-zero (a fixed pattern): every listed
\* offset is an impact point at its listed percentage.
C24_SinglePatternResolution ==
  (last.op = "resolve_target_area" /\ last.action.target_area.target_type = SINGLE) =>
    LET data == last.action.target_area.data
        aim == last.action.primary_target
        impacts == last.action.impacts
        total == CumulativeWeight(data, Len(data))
        AtAim == <<Impact(aim, 100)>>
        Listed(k) == Impact(<<aim[1] + data[k].pos[1], aim[2] + data[k].pos[2]>>,
                            data[k].damage_percent)
    IN IF last.action.target_area.random
         THEN /\ Len(impacts) = 1
              /\ total = 0 => impacts = AtAim
              /\ total > 0 =>
                   \E k \in 1..Len(data) :
                     /\ impacts = <<Listed(k)>>
                     /\ last.action.raw * total <= 100 * CumulativeWeight(data, k)
                     /\ \A j \in 1..(k - 1) :
                          last.action.raw * total > 100 * CumulativeWeight(data, j)
         ELSE IF \A k \in 1..Len(data) : data[k].pos = <<0, 0>>
                THEN impacts = AtAim
                ELSE /\ Len(impacts) = Len(data)
                     /\ \A k \in 1..Len(data) : impacts[k] = Listed(k)

====
